---- MODULE Spec2Model ----
(***************************************************************************)
(* mcpo-bridge: the child-process orchestration of ProcessManager          *)
(* (src/src/core/process_manager.py).                                      *)
(*                                                                         *)
(* Requests enter at ProcessManager.execute_request(server_type,           *)
(* request_data, job_dir, client_ip).  Every task is an asyncio task of    *)
(* one event loop, so an action is the code a task runs between two        *)
(* suspension points (an await that really suspends: a lock that is taken, *)
(* a pipe operation in the executor, a wait for a child to exit).          *)
(*                                                                         *)
(* A child process is named by the request that started it (each request   *)
(* starts at most one child); 0 stands for "no child" / "no task".         *)
(***************************************************************************)
EXTENDS Integers, Sequences, FiniteSets, TLC

\* ---------------------------------------------------------------- bounds
NumRequests == 2        \* requests the environment issues
MaxTime == 1            \* the clock runs 0..MaxTime
MaxConcurrent == 1      \* settings.max_concurrent, scaled down
IdleTimeout == 0        \* idle_timeout of the stateful server, in clock ticks
MaxCancels == 1         \* request tasks the server cancels
NumHttp == 2            \* HTTP requests the clients send
NumEntries == 3         \* entries of the jobs root
MaxDepth == 2           \* nesting depth of the objects in a response

Reqs == 1..NumRequests
Children == Reqs
ReaperId == NumRequests + 1
ShutdownId == NumRequests + 2
Tasks == 1..ShutdownId

\* ------------------------------------------------------- configuration
ServerMode(tag) == IF tag = "calc" THEN "stateful" ELSE "stateless"
IsStateful(tag) == ServerMode(tag) = "stateful"
ClientIps == {"ip1", "ip2"}
KeyOrder == <<"ip1", "ip2">>
Inputs == { <<"calc", "ip1">>, <<"calc", "ip2">>, <<"calc", "">>, <<"echo", "ip1">> }

\* _add_usage_guide_tool takes (server_type, request_data, response_data)
GuideToolParams == 3
StatelessGuideArgs == 3
StatefulGuideArgs == 2
GuideCallRaises(nargs) == nargs # GuideToolParams

VARIABLES
    pc,             \* request task -> position
    rtag, rip,      \* request -> server_type, client_ip
    info,           \* request -> the child (process_info / process) it works on
    exc,            \* request -> exception in flight / raised ("none": no exception)
    answer,         \* request -> the response of its exchange: the call count n
                    \* the child answered, or the code of the synthesized error
                    \* envelope (0: no response)
    exit_code,      \* request -> the exit code its exchange reported (-1: none)
    cancelled,      \* requests whose task was cancelled
    prior,          \* request -> the requests that had ended when it arrived
    proc,           \* child -> "none" | "running" | "exited" | "failed" (exited at startup)
    inq,            \* child -> request lines written to its stdin, not yet consumed
    outq,           \* child -> response lines on its stdout, not yet read
    calls,          \* child -> calls it has counted
    sigterm,        \* children that were sent SIGTERM
    pool,           \* stateful_processes["calc"]: client_ip -> child (0: no entry)
    last_access,    \* child -> StatefulProcessInfo.last_access
    request_count,  \* child -> StatefulProcessInfo.request_count
    probe,          \* child -> result of the most recent is_healthy() probe
    poolHolder,     \* stateful_lock: the task holding it (0: free)
    poolQueue,      \* stateful_lock: tasks at acquire(), in order
    reqHolder,      \* child -> holder of its request_lock (0: free)
    reqQueue,       \* child -> tasks at request_lock.acquire(), in order
    semValue,       \* semaphore: permits left
    semQueue,       \* semaphore: tasks at acquire(), in order
    tstage,         \* task -> stage of the _terminate_process it is in
    rpc,            \* reaper task position
    reapKeys,       \* reaper: keys of the snapshot still to visit
    now,            \* datetime.now(timezone.utc)
    hpc,            \* HTTP request -> position of its handler
    hreq,           \* HTTP request -> [ep, tag, body] it came with
    hout,           \* HTTP request -> [exc, exit_code] of its execute_request call
    hstatus,        \* HTTP request -> status code of the response (0: none yet)
    job,            \* HTTP request -> its job directory: [dir, status, error]
    hdata,          \* HTTP request -> response_data of its handler
    saved,          \* HTTP request -> the response save_response stored
    gpc,            \* garbage collector: "idle" | "scan" | "done"
    entries,        \* jobs root: name -> what the entry was when the pass began
    present,        \* jobs root: name -> the entry still exists
    outside,        \* directory outside the jobs root -> it still exists
    todo,           \* names iterdir() has yet to yield
    tz,             \* seconds the local time zone is ahead of UTC
    live,           \* jobs root: the entries that are the working directory of a running child
    rwPc,           \* response rewriter: "in" (not applied yet) | "out" (files
                    \* extracted) | "sent" (links injected) | "failed" (the
                    \* injection raised) | "twice" (rewritten a second time)
    rwIn,           \* the response data _extract_file_info is given
    rwOut,          \* the data it returns
    rwFiles,        \* the files list it returns
    rwSent,         \* the response after the download links were injected
    rwTwice,        \* rwSent after a second application of the rewriter
    rwJobsDir,      \* settings.jobs_dir, as a string ending in "/"
    stateful_enabled, \* settings.stateful_enabled
    spc,            \* shutdown: "run" (serving) | "term" (waits for a child) |
                    \* "down" (shutdown returned) | "timeout" (the 30 s ran out)
    sdKeys,         \* keys of shutdown's snapshot it has yet to remove
    sdPooled,       \* children in the pool when shutdown took its snapshot
    sdKilled        \* children shutdown removed after the wait that follows SIGKILL

reqVars   == <<rtag, rip, info, answer, exit_code, cancelled, prior>>
childVars == <<proc, inq, outq, calls>>
poolVars  == <<pool, last_access, request_count, probe>>
lockVars  == <<poolHolder, reqHolder, reqQueue, semQueue>>
reapVars  == <<rpc, reapKeys>>
httpVars  == <<hpc, hreq, hout, hstatus, job, hdata, saved>>
gcVars    == <<gpc, entries, present, outside, todo, tz, live>>
rwVars    == <<rwPc, rwIn, rwOut, rwFiles, rwSent, rwTwice, rwJobsDir>>
cfgVars   == <<stateful_enabled>>
sdVars    == <<spc, sdKeys, sdPooled, sdKilled>>
auxVars   == <<httpVars, gcVars, rwVars, cfgVars, sdVars>>
pmVars == <<pc, rtag, rip, info, exc, answer, exit_code, cancelled, prior, proc, inq, outq, calls,
          sigterm, pool, last_access, request_count, probe,
          poolHolder, poolQueue, reqHolder, reqQueue, semValue, semQueue,
          tstage, rpc, reapKeys, now>>
vars == <<pmVars, auxVars>>
nonHttpVars == <<pmVars, gcVars, rwVars, cfgVars, sdVars>>
nonGcVars == <<pmVars, httpVars, rwVars, cfgVars, sdVars>>
nonRwVars == <<pmVars, httpVars, gcVars, cfgVars, sdVars>>

\* settings.stateful_enabled, config.py line 35
StatefulEnabled == stateful_enabled

PmInit ==
    /\ pc = [r \in Reqs |-> "idle"]
    /\ rtag = [r \in Reqs |-> ""]
    /\ rip = [r \in Reqs |-> ""]
    /\ info = [r \in Reqs |-> 0]
    /\ exc = [r \in Reqs |-> "none"]
    /\ answer = [r \in Reqs |-> 0]
    /\ exit_code = [r \in Reqs |-> -1]
    /\ cancelled = {}
    /\ prior = [r \in Reqs |-> {}]
    /\ proc = [c \in Children |-> "none"]
    /\ inq = [c \in Children |-> 0]
    /\ outq = [c \in Children |-> <<>>]
    /\ calls = [c \in Children |-> 0]
    /\ sigterm = {}
    /\ pool = [k \in ClientIps |-> 0]
    /\ last_access = [c \in Children |-> 0]
    /\ request_count = [c \in Children |-> 0]
    /\ probe = [c \in Children |-> "none"]
    /\ poolHolder = 0
    /\ poolQueue = <<>>
    /\ reqHolder = [c \in Children |-> 0]
    /\ reqQueue = [c \in Children |-> <<>>]
    /\ semValue = MaxConcurrent
    /\ semQueue = <<>>
    /\ tstage = [t \in Tasks |-> "none"]
    /\ rpc = "sleep"
    /\ reapKeys = <<>>
    /\ now = 0
    /\ stateful_enabled \in BOOLEAN
    /\ spc = "run"
    /\ sdKeys = <<>>
    /\ sdPooled = {}
    /\ sdKilled = {}

\* the HTTP boundary before any request: no handler runs, no job directory
HReqs == 1..NumHttp
NoJob == [dir |-> FALSE, status |-> "none", error |-> ""]
NoOutcome == [exc |-> "none", exit_code |-> -1]
NoResponse == [t |-> "none"]
HttpInit ==
    /\ hpc = [h \in HReqs |-> "idle"]
    /\ hreq = [h \in HReqs |-> [ep |-> "", tag |-> "", body |-> ""]]
    /\ hout = [h \in HReqs |-> NoOutcome]
    /\ hstatus = [h \in HReqs |-> 0]
    /\ job = [h \in HReqs |-> NoJob]
    /\ hdata = [h \in HReqs |-> NoResponse]
    /\ saved = [h \in HReqs |-> NoResponse]

\* the jobs root (settings.jobs_dir) when a GC pass begins.  An entry is a
\* directory, with the kind of created_at its metadata.json holds ("aware": as
\* JobMetadata writes it, with a UTC offset; "naive": an ISO time without one;
\* "none": no readable metadata.json) and the seconds since it was created and
\* last modified, or a symlink with what it points to: another entry, a
\* directory elsewhere, or a directory whose path begins with the text of the
\* jobs root's path (such as /tmp/mcpo-jobs-old/x).
Names == 1..NumEntries
OutsideDir == NumEntries + 1
SiblingDir == NumEntries + 2
FileExpiry == 3600
Ages == {60, FileExpiry, 2 * FileExpiry}
GcClock == 4 * FileExpiry
UtcOffsets == {0, 9 * 3600}
DirEntry(m, a) == [kind |-> "dir", meta |-> m, age |-> a, to |-> 0]
LinkEntry(t) == [kind |-> "link", meta |-> "none", age |-> 0, to |-> t]
DirEntries == {DirEntry(m, a) : m \in {"aware", "naive", "none"}, a \in Ages}
LinkEntries(e) == {LinkEntry(t) : t \in (Names \ {e}) \cup {OutsideDir, SiblingDir}}

\* no GC pass: an empty-handed collector and job directories just created
GcQuiet ==
    /\ gpc = "idle"
    /\ entries = [e \in Names |-> DirEntry("aware", 60)]
    /\ present = [e \in Names |-> TRUE]
    /\ outside = [d \in {OutsideDir, SiblingDir} |-> TRUE]
    /\ todo = {}
    /\ tz = 0
    /\ live = {}

\* a GC pass is about to run on some jobs root holding at most one symlink.
\* At most one of its directories is the working directory of a running child
\* (cwd of the Popen call, process_manager.py line 328): create_job wrote its
\* metadata.json, which is still as written or is gone or unreadable by now
LiveChoices ==
    { L \in SUBSET Names :
          /\ Cardinality(L) <= 1
          /\ \A e \in L : entries[e].kind = "dir" /\ entries[e].meta \in {"aware", "none"} }
GcInit ==
    /\ gpc = "idle"
    /\ entries \in [Names -> DirEntries \cup UNION {LinkEntries(e) : e \in Names}]
    /\ \A e \in Names : entries[e].kind = "link" => entries[e].to # e
    /\ Cardinality({e \in Names : entries[e].kind = "link"}) <= 1
    /\ present = [e \in Names |-> TRUE]
    /\ outside = [d \in {OutsideDir, SiblingDir} |-> TRUE]
    /\ todo = {}
    /\ tz \in UtcOffsets
    /\ live \in LiveChoices

\* the response data the rewriter works on.  A string is the sequence of its
\* path segments and separators ("/tmp/mcpo-jobs/J1/a.x" is
\* <<"/", "tmp", "/", "mcpo-jobs", "/", "J1", "/", "a.x">>); a JSON value is
\* tagged with its type: a string, a number, an object (a function from its
\* keys) or an array.
Str(s) == [t |-> "str", s |-> s]
Num == [t |-> "num"]
Obj(o) == [t |-> "obj", o |-> o]
List(l) == [t |-> "list", l |-> l]
JobId == "J1"
JobsTmp == <<"/", "tmp", "/", "mcpo-jobs", "/">>
PathValues ==
    { JobsTmp \o <<"J1", "/", "a.x">>,                  \* a file of this job
      JobsTmp \o <<"J2", "/", "a.x">>,                  \* a file of another job
      JobsTmp \o <<"J1", "/">>,                         \* the job directory itself
      JobsTmp \o <<"J1", "/", "sub", "/", "a.x">>,      \* a file in a subdirectory
      <<"b.x">>, <<"sub", "/", "b.x">>,                 \* relative paths
      <<"/", "etc", "/", "c.x">>,                       \* an absolute path elsewhere
      <<".">>, <<>> }
OtherPathValues == { <<"out.x">>, <<"/", "etc", "/", "c.x">> }

\* mcp_config.get_file_path_fields(server_type): the configured field names
FilePathFields == <<"file_path", "output_path">>

\* objects without nested values: any of the two path fields, with a string
\* or a number, and possibly a _download_url the tool program wrote itself
FieldChoices(k) ==
    IF k = "file_path" THEN {Str(s) : s \in PathValues} \cup {Num}
    ELSE IF k = "output_path" THEN {Str(s) : s \in OtherPathValues}
    ELSE {Str(<<"old">>)}
LeafKeys == {"file_path", "output_path", "_download_url"}
LeafObjects == UNION { [K -> UNION {FieldChoices(k) : k \in K}] : K \in SUBSET LeafKeys }
Leaves == { o \in LeafObjects : \A k \in DOMAIN o : o[k] \in FieldChoices(k) }

\* the objects that get a nested value: without fields, with a file of the
\* job, with an absolute path elsewhere, with a relative path and a
\* _download_url of the tool program
Parents ==
    { <<>>,
      [file_path |-> Str(JobsTmp \o <<"J1", "/", "a.x">>)],
      [file_path |-> Str(<<"/", "etc", "/", "c.x">>)],
      [output_path |-> Str(<<"out.x">>), _download_url |-> Str(<<"old">>)] }

\* objects of nesting depth d: a leaf, or a parent with an object or an array
\* of one object of depth d - 1 under "result"
RECURSIVE Docs(_)
Docs(d) ==
    IF d <= 1 THEN {Obj(o) : o \in Leaves}
    ELSE LET inner == Docs(d - 1)
         IN  {Obj(o) : o \in Leaves}
             \cup {Obj([k \in DOMAIN o \cup {"result"} |-> IF k = "result" THEN v ELSE o[k]]) :
                      o \in Parents, v \in inner \cup {List(<<x>>) : x \in inner}}

\* settings.jobs_dir: the default of config.py line 24 and a directory
\* configured with MCPO_JOBS_DIR
JobsData == <<"/", "data", "/", "mcpo-jobs", "/">>
JobsDirs == {JobsTmp, JobsData}

\* an object with a content member
WithContent(o, c) == [k \in DOMAIN o \cup {"content"} |-> IF k = "content" THEN c ELSE o[k]]

\* a JSON null
Null == [t |-> "null"]

\* the texts of content items, for a jobs directory: a text is the sequence of
\* its words, blanks, brackets and path segments ("out.xlsx" and "a.x" are
\* names with an extension, "out" is one without)
Texts(dir) ==
    { <<"see", " ">> \o dir \o <<"J1", "/", "out.xlsx">>,
      <<"see", " ">> \o dir \o <<"J1", "/", "out.xlsx", " ", "and", " ">>
                     \o dir \o <<"J1", "/", "out.xlsx">>,      \* the same file twice
      dir \o <<"J1", "/", "out.xlsx", " ">> \o dir \o <<"J1", "/", "a.x">>,
      <<"(">> \o dir \o <<"J1", "/", "a.x", ")">>,              \* in brackets
      <<"see", " ">> \o dir \o <<"J1", "/", "out">>,           \* no extension
      <<"see", " ">> \o dir \o <<"J2", "/", "out.xlsx">>,      \* another job
      <<"done">> }

\* the items of a content array: text items, a text item that also names its
\* file in a configured field, and an item that is not a text
MaxItems == 2
TextItem(s) == Obj([type |-> Str(<<"text">>), text |-> Str(s)])
Items(dir) ==
    {TextItem(s) : s \in Texts(dir)}
    \cup { Obj([type |-> Str(<<"text">>),
                text |-> Str(<<"see", " ">> \o dir \o <<"J1", "/", "out.xlsx">>),
                file_path |-> Str(dir \o <<"J1", "/", "out.xlsx">>)]),
           Obj([type |-> Str(<<"image">>)]) }
Contents(dir) ==
    UNION { [1..n -> Items(dir)] : n \in 0..MaxItems }

\* the result member of a response: an object with a content array, with a
\* configured field and no content, with a content that is no array, and
\* results that are no objects
ResultFields(dir) ==
    { <<>>,
      [file_path |-> Str(dir \o <<"J1", "/", "out.xlsx">>)],
      [file_path |-> Str(<<"b.x">>)] }
Results(dir) ==
    { Obj(WithContent(o, List(c))) : o \in ResultFields(dir), c \in Contents(dir) }
    \cup { Obj(o) : o \in ResultFields(dir) }
    \cup { Obj(WithContent(o, Str(<<"done">>))) : o \in ResultFields(dir) }
    \cup { List(<<Obj(o)>>) : o \in ResultFields(dir) }
    \cup { Str(<<"done">>), Str(<<"content">>), Num, Null }

\* the responses of a child: with a result member, alone or next to a
\* configured field of the response itself, and without one
Responses(dir) ==
    { Obj([result |-> r]) : r \in Results(dir) }
    \cup { Obj([result |-> r, file_path |-> Str(<<"b.x">>)]) : r \in Results(dir) }
    \cup { Obj([error |-> Obj(o)]) : o \in ResultFields(dir) }

\* the rewriter at rest
RwQuiet ==
    /\ rwPc = "in"
    /\ rwIn = Obj(<<>>)
    /\ rwOut = Obj(<<>>)
    /\ rwFiles = <<>>
    /\ rwSent = Obj(<<>>)
    /\ rwTwice = Obj(<<>>)
    /\ rwJobsDir = JobsTmp

\* a response is about to be rewritten
RwInit ==
    /\ rwPc = "in"
    /\ rwJobsDir \in JobsDirs
    /\ rwIn \in Docs(MaxDepth) \cup Responses(rwJobsDir)
    /\ rwOut = rwIn
    /\ rwFiles = <<>>
    /\ rwSent = rwIn
    /\ rwTwice = rwIn

Init == PmInit /\ HttpInit /\ GcQuiet /\ RwQuiet

\* ------------------------------------------------------------- helpers
Without(q, t) == SelectSeq(q, LAMBDA x : x # t)

\* variant: the client_ip test of line 116 inverted
ExecutePath_IpTestInverted(tag, ip) ==
    IF StatefulEnabled /\ IsStateful(tag) /\ ip = "" THEN "stateful" ELSE "stateless"

\* variant: settings.stateful_enabled is not consulted
ExecutePath_SwitchIgnored(tag, ip) ==
    IF IsStateful(tag) /\ ip # "" THEN "stateful" ELSE "stateless"

\* execute_request: which path serves (server_type, client_ip)
ExecutePath(tag, ip) ==
    IF StatefulEnabled /\ IsStateful(tag) /\ ip # "" THEN "stateful" ELSE "stateless"
Path(r) == ExecutePath(rtag[r], rip[r])

\* variant: one entry per server type, whoever asks
EntryKey_OnePerServer(r) == "ip1"

\* _get_or_create_stateful_process, lines 246-247 and 271: the entry of a
\* request is stateful_processes[server_type][client_ip]
EntryKey(r) == rip[r]

\* StatefulProcessInfo.is_healthy: poll() is None and the pipes are not closed
\* (the pipes of a Popen object are closed only by communicate() in
\* _start_process, on a process that has exited)
IsHealthy(c) == proc[c] = "running"
ProbeResult(c) == IF IsHealthy(c) THEN "healthy" ELSE "unhealthy"

\* variant: the pool entry is reused without looking at the probe
ReuseExisting_Unprobed(c) == TRUE

\* _get_or_create_stateful_process: the existing entry is returned iff healthy
ReuseExisting(c) == IsHealthy(c)

\* variant: idle as soon as the timeout is reached
IsIdleTimeout_AtTimeout(c) == now - last_access[c] >= IdleTimeout

\* StatefulProcessInfo.is_idle_timeout
IsIdleTimeout(c) == now - last_access[c] > IdleTimeout

\* variant: stateful_lock never makes a task wait
PoolLockFree_Always == TRUE

\* asyncio primitives: a waiter takes the lock when it is free and it is first
PoolLockFree == poolHolder = 0

\* variant: request_lock is not taken around the exchange
RequestLockFree_NoLock(c) == TRUE

\* process_info.request_lock, one per pooled child
RequestLockFree(c) == reqHolder[c] = 0

\* variant: the request lock wakes its newest waiter first
RequestLockNext_Newest(q) == q[Len(q)]

\* asyncio.Lock wakes its waiters in the order of their acquire() calls
RequestLockNext(q) == Head(q)

\* variant: the semaphore admits a request whatever its value
SemaphoreLocked_Never == FALSE

\* self.semaphore = asyncio.Semaphore(settings.max_concurrent): locked()
SemaphoreLocked == semValue = 0

\* variant: the exchange is nested inside "async with self.stateful_lock"
HolderAfterGet_StillHeld(r) == r

\* _execute_stateful leaves "async with self.stateful_lock" before the exchange
HolderAfterGet(r) == 0

\* variant: the handler of line 216 does not catch the timeout
EvictsOn_NotTimeout(e) == e \notin {"none", "Timeout"}

\* _execute_stateful line 216, "except Exception": what evicts the child
EvictsOn(e) == e # "none"

\* process_mcp_request, line 260 and the except clauses: the status of the
\* HTTP response for the way execute_request ended
HttpStatus(e) ==
    IF e = "none" THEN 200 ELSE IF e = "Timeout" THEN 504 ELSE 500

\* process_mcp_request, lines 212-219 and the except clauses: the job status
\* written for the way execute_request ended and the exit code it returned
JobStatusAfter(e, ec) ==
    IF e = "none" /\ ec = 0 THEN "completed" ELSE "failed"

\* _communicate, lines 410-436: the response made of the line that readline
\* returned.  A line is the number n of a JSON response, or NonJsonLine; no line
\* (b"" at end of file) gives the -32603 envelope, a line json.loads rejects the
\* -32700 envelope.
NonJsonLine == 0
ParseErrorCode == -32700
InternalErrorCode == -32603
ResponseOf(lines) ==
    IF lines = <<>> THEN InternalErrorCode
    ELSE IF Head(lines) = NonJsonLine THEN ParseErrorCode
    ELSE Head(lines)

\* _communicate, lines 417-436: the two synthesized envelopes for a call with
\* the given id; text is the decoded line
DataLimit == 500
ParseErrorEnvelope(text, id) ==
    [code |-> ParseErrorCode, message |-> "Parse error",
     data |-> SubSeq(text, 1, IF Len(text) < DataLimit THEN Len(text) ELSE DataLimit),
     id |-> id]
NoResponseEnvelope(id) ==
    [code |-> InternalErrorCode, message |-> "Internal error",
     data |-> "No response from MCP server", id |-> id]

\* _communicate, lines 404-406 and 438: poll(), and 0 while the child is running
ExitStatuses == {0, 1}
ExitCodeReported(c, st) == IF proc[c] = "running" THEN 0 ELSE st

\* _start_process, lines 322-344: when the 100 ms observation ends the child is
\* running, or has exited ("failed": communicate() has closed its pipes); the
\* Popen object is returned in both cases
StartOutcomes == {"running", "failed"}

\* variant: _terminate_process does not wait for the child
TermReturns_AtOnce(t, c) == tstage[t] \in {"term", "kill"}

\* variant: the wait after SIGKILL has no bound
TermReturns_Unbounded(t, c) ==
    /\ tstage[t] \in {"term", "kill"}
    /\ proc[c] # "running"

\* _terminate_process returns: the child has exited, or the wait after SIGKILL
\* ran out ("could not be killed")
TermReturns(t, c) ==
    /\ tstage[t] \in {"term", "kill"}
    /\ (proc[c] # "running" \/ tstage[t] = "kill")

\* variant: the poll() test of line 481 never sees a running child
StillRunning_Never(c) == FALSE

\* variant: the poll() test of line 481 is left out
StillRunning_Always(c) == TRUE

\* _terminate_process line 481: "if process.poll() is None"
StillRunning(c) == proc[c] = "running"

\* ------------------------------------------------- leaving the exchange
\* Stateful path, lines 209-221: the return (e = "none") and every exception
\* first take stateful_lock, still inside "async with process_info.request_lock".
Post(r, e) ==
    /\ pc' = [pc EXCEPT ![r] = "post_wait"]
    /\ exc' = [exc EXCEPT ![r] = e]
    /\ poolQueue' = Append(poolQueue, r)
    /\ tstage' = [tstage EXCEPT ![r] = "none"]
    /\ UNCHANGED <<sigterm, semValue>>

\* Stateless path, lines 163-165: "finally: await self._terminate_process(process)",
\* then "async with self.semaphore" is left and the permit released.
Finally(r, e) ==
    /\ exc' = [exc EXCEPT ![r] = e]
    /\ UNCHANGED poolQueue
    /\ IF StillRunning(r)
       THEN /\ pc' = [pc EXCEPT ![r] = "fin"]
            /\ tstage' = [tstage EXCEPT ![r] = "term"]
            /\ sigterm' = sigterm \cup {r}
            /\ UNCHANGED semValue
       ELSE /\ pc' = [pc EXCEPT ![r] = "done"]
            /\ tstage' = [tstage EXCEPT ![r] = "none"]
            /\ semValue' = semValue + 1
            /\ UNCHANGED sigterm

Leave(r, e) == IF Path(r) = "stateful" THEN Post(r, e) ELSE Finally(r, e)

\* ------------------------------------------------------------ requests
\* execute_request, lines 113-124, up to the first acquire()
Arrive(r, tag, ip) ==
    /\ pc[r] = "idle"
    /\ spc = "run"                                  \* the server still accepts requests
    /\ \A q \in Reqs : q < r => pc[q] # "idle"      \* requests are numbered as they arrive
    /\ rtag' = [rtag EXCEPT ![r] = tag]
    /\ rip' = [rip EXCEPT ![r] = ip]
    /\ prior' = [prior EXCEPT ![r] = {q \in Reqs : pc[q] = "done"}]
    /\ IF ExecutePath(tag, ip) = "stateful"
       THEN /\ pc' = [pc EXCEPT ![r] = "wait_pool"]
            /\ poolQueue' = Append(poolQueue, r)
            /\ UNCHANGED semQueue
       ELSE /\ pc' = [pc EXCEPT ![r] = "wait_sem"]
            /\ semQueue' = Append(semQueue, r)
            /\ UNCHANGED poolQueue
    /\ UNCHANGED <<info, exc, answer, exit_code, cancelled, childVars, sigterm, poolVars,
                   poolHolder, reqHolder, reqQueue, semValue, tstage, reapVars, now>>
    /\ UNCHANGED auxVars

\* _execute_stateless, lines 146-156: permit taken, child started, write submitted
AcquireSem(r) ==
    /\ pc[r] = "wait_sem"
    /\ ~SemaphoreLocked
    /\ Head(semQueue) = r
    /\ semValue' = semValue - 1
    /\ semQueue' = Tail(semQueue)
    /\ \E st \in StartOutcomes : proc' = [proc EXCEPT ![r] = st]
    /\ info' = [info EXCEPT ![r] = r]
    /\ pc' = [pc EXCEPT ![r] = "write"]
    /\ UNCHANGED <<rtag, rip, exc, answer, exit_code, cancelled, prior, inq, outq, calls, sigterm,
                   poolVars, poolHolder, poolQueue, reqHolder, reqQueue,
                   tstage, reapVars, now>>
    /\ UNCHANGED auxVars

\* _execute_stateful lines 189-199 with _get_or_create_stateful_process, lines
\* 243-272: under stateful_lock probe the entry of the key; reuse it when healthy,
\* else remove it (_terminate_process does nothing for an exited process) and
\* start a child; leave the lock; go to the child's request_lock.
TakePoolGet(r) ==
    /\ pc[r] = "wait_pool"
    /\ PoolLockFree
    /\ Head(poolQueue) = r
    /\ LET k == EntryKey(r)
           e == pool[k]
           reuse == e # 0 /\ ReuseExisting(e)
           c == IF reuse THEN e ELSE r
       IN  /\ probe' = IF e # 0 THEN [probe EXCEPT ![e] = ProbeResult(e)] ELSE probe
           /\ pool' = [pool EXCEPT ![k] = c]
           /\ IF reuse THEN proc' = proc
              ELSE \E st \in StartOutcomes : proc' = [proc EXCEPT ![r] = st]
           /\ last_access' = IF reuse THEN last_access
                             ELSE [last_access EXCEPT ![r] = now]
           /\ request_count' = IF reuse THEN request_count
                               ELSE [request_count EXCEPT ![r] = 0]
           /\ info' = [info EXCEPT ![r] = c]
           /\ reqQueue' = [reqQueue EXCEPT ![c] = Append(reqQueue[c], r)]
    /\ poolQueue' = Tail(poolQueue)
    /\ poolHolder' = HolderAfterGet(r)
    /\ pc' = [pc EXCEPT ![r] = "wait_req"]
    /\ UNCHANGED <<rtag, rip, exc, answer, exit_code, cancelled, prior, inq, outq, calls, sigterm,
                   reqHolder, semValue, semQueue, tstage, reapVars, now>>
    /\ UNCHANGED auxVars

\* line 199, "async with process_info.request_lock", then _communicate submits
\* the write
AcquireReq(r) ==
    /\ pc[r] = "wait_req"
    /\ RequestLockFree(info[r])
    /\ RequestLockNext(reqQueue[info[r]]) = r
    /\ reqHolder' = [reqHolder EXCEPT ![info[r]] = r]
    /\ reqQueue' = [reqQueue EXCEPT ![info[r]] = Without(reqQueue[info[r]], r)]
    /\ pc' = [pc EXCEPT ![r] = "write"]
    /\ UNCHANGED <<rtag, rip, info, exc, answer, exit_code, cancelled, prior, childVars, sigterm,
                   poolVars, poolHolder, poolQueue, semValue, semQueue, tstage,
                   reapVars, now>>
    /\ UNCHANGED auxVars

\* _communicate, lines 370-380: stdin.write and flush finish; a pipe whose reader
\* has exited raises BrokenPipeError, a stdin that communicate() closed in
\* _start_process raises ValueError (lines 444-446 re-raise it)
WriteDone(r) ==
    /\ pc[r] = "write"
    /\ IF proc[info[r]] = "running"
       THEN /\ inq' = [inq EXCEPT ![info[r]] = inq[info[r]] + 1]
            /\ pc' = [pc EXCEPT ![r] = "read"]
            /\ UNCHANGED <<exc, poolQueue, tstage, sigterm, semValue>>
       ELSE /\ Leave(r, IF proc[info[r]] = "failed" THEN "ValueError" ELSE "BrokenPipe")
            /\ UNCHANGED inq
    /\ UNCHANGED <<reqVars, proc, outq, calls, poolVars, lockVars,
                   reapVars, now>>
    /\ UNCHANGED auxVars

\* _communicate, lines 394-438: readline returns a line, or b"" at end of file
\* once the child has exited; the response and the exit code are made; then
\* line 159 / line 207 call _add_usage_guide_tool
ReadLine(r) ==
    /\ pc[r] = "read"
    /\ outq[info[r]] # <<>> \/ proc[info[r]] # "running"
    /\ answer' = [answer EXCEPT ![r] = ResponseOf(outq[info[r]])]
    /\ \E st \in ExitStatuses :
          exit_code' = [exit_code EXCEPT ![r] = ExitCodeReported(info[r], st)]
    /\ outq' = [outq EXCEPT ![info[r]] =
                     IF outq[info[r]] # <<>> THEN Tail(outq[info[r]]) ELSE <<>>]
    /\ IF Path(r) = "stateful"
       THEN Post(r, IF GuideCallRaises(StatefulGuideArgs) THEN "TypeError" ELSE "none")
       ELSE Finally(r, IF GuideCallRaises(StatelessGuideArgs) THEN "TypeError" ELSE "none")
    /\ UNCHANGED <<rtag, rip, info, cancelled, prior, proc, inq, calls, poolVars,
                   lockVars, reapVars, now>>
    /\ UNCHANGED auxVars

\* _communicate, lines 440-443: wait_for gives up on readline; the handler
\* terminates the child and re-raises
Timeout(r) ==
    /\ pc[r] = "read"
    /\ IF StillRunning(info[r])
       THEN /\ pc' = [pc EXCEPT ![r] = "to"]
            /\ exc' = [exc EXCEPT ![r] = "Timeout"]
            /\ tstage' = [tstage EXCEPT ![r] = "term"]
            /\ sigterm' = sigterm \cup {info[r]}
            /\ UNCHANGED <<poolQueue, semValue>>
       ELSE Leave(r, "Timeout")
    /\ UNCHANGED <<reqVars, childVars, poolVars, lockVars, reapVars, now>>
    /\ UNCHANGED auxVars

\* the _terminate_process of the timeout handler returns; TimeoutError goes on
TimeoutTermDone(r) ==
    /\ pc[r] = "to"
    /\ TermReturns(r, info[r])
    /\ Leave(r, "Timeout")
    /\ UNCHANGED <<reqVars, childVars, poolVars, lockVars, reapVars, now>>
    /\ UNCHANGED auxVars

\* lines 494-497: the 10 s wait after SIGTERM ran out, SIGKILL is sent
TermTarget(t) ==
    IF t = ReaperId THEN pool[Head(reapKeys)]
    ELSE IF t = ShutdownId THEN pool[Head(sdKeys)]
    ELSE IF pc[t] = "ev" THEN pool[rip[t]] ELSE info[t]
TermTimeout(t) ==
    /\ tstage[t] = "term"
    /\ proc[TermTarget(t)] = "running"
    /\ tstage' = [tstage EXCEPT ![t] = "kill"]
    /\ UNCHANGED <<pc, reqVars, exc, proc, inq, outq, calls, sigterm, poolVars,
                   lockVars, poolQueue, semValue, reapVars, now>>
    /\ UNCHANGED auxVars

\* the stateless finally-terminate returns: the permit is released
FinallyDone(r) ==
    /\ pc[r] = "fin"
    /\ TermReturns(r, r)
    /\ pc' = [pc EXCEPT ![r] = "done"]
    /\ tstage' = [tstage EXCEPT ![r] = "none"]
    /\ semValue' = semValue + 1
    /\ UNCHANGED <<reqVars, exc, childVars, sigterm, poolVars, lockVars, poolQueue,
                   reapVars, now>>
    /\ UNCHANGED auxVars

\* lines 209-221, stateful_lock taken after the exchange.  No exception: lines
\* 210-214 update the entry and return.  Exception: _remove_stateful_process
\* (lines 282-287) terminates the process of the pool entry of the key, deletes
\* the entry, and the exception is re-raised.
TakePoolPost(r) ==
    /\ pc[r] = "post_wait"
    /\ PoolLockFree
    /\ Head(poolQueue) = r
    /\ poolQueue' = Tail(poolQueue)
    /\ LET k == rip[r]
           c == info[r]
           e == pool[k]
       IN  IF ~EvictsOn(exc[r])
           THEN /\ last_access' = [last_access EXCEPT ![c] = now]
                /\ request_count' = [request_count EXCEPT ![c] = request_count[c] + 1]
                /\ reqHolder' = [reqHolder EXCEPT ![c] = 0]
                /\ pc' = [pc EXCEPT ![r] = "done"]
                /\ UNCHANGED <<pool, poolHolder, tstage, sigterm>>
           ELSE IF e # 0 /\ StillRunning(e)
           THEN /\ poolHolder' = r
                /\ tstage' = [tstage EXCEPT ![r] = "term"]
                /\ sigterm' = sigterm \cup {e}
                /\ pc' = [pc EXCEPT ![r] = "ev"]
                /\ UNCHANGED <<pool, last_access, request_count, reqHolder>>
           ELSE /\ pool' = [pool EXCEPT ![k] = 0]
                /\ reqHolder' = [reqHolder EXCEPT ![c] = 0]
                /\ pc' = [pc EXCEPT ![r] = "done"]
                /\ UNCHANGED <<poolHolder, last_access, request_count, tstage, sigterm>>
    /\ UNCHANGED <<reqVars, exc, childVars, probe, reqQueue, semValue, semQueue,
                   reapVars, now>>
    /\ UNCHANGED auxVars

\* _remove_stateful_process, lines 285-287, after its _terminate_process returned:
\* the entry is deleted, both locks are left, the exception is re-raised
EvictDone(r) ==
    /\ pc[r] = "ev"
    /\ TermReturns(r, pool[rip[r]])
    /\ pool' = [pool EXCEPT ![rip[r]] = 0]
    /\ poolHolder' = 0
    /\ reqHolder' = [reqHolder EXCEPT ![info[r]] = 0]
    /\ tstage' = [tstage EXCEPT ![r] = "none"]
    /\ pc' = [pc EXCEPT ![r] = "done"]
    /\ UNCHANGED <<reqVars, exc, childVars, sigterm, last_access, request_count,
                   probe, poolQueue, reqQueue, semValue, semQueue, reapVars, now>>
    /\ UNCHANGED auxVars

\* The task of a request is cancelled at the await it is suspended in.
\* CancelledError is no Exception: "except Exception" (line 216) does not catch
\* it, "finally" (line 163) runs, every "async with" releases what it holds.
Cancel(r) ==
    /\ pc[r] \in {"wait_pool", "wait_sem", "wait_req", "write", "read", "to",
                  "post_wait", "ev", "fin"}
    /\ r \notin cancelled
    /\ Cardinality(cancelled) < MaxCancels
    /\ cancelled' = cancelled \cup {r}
    /\ IF Path(r) = "stateless" /\ pc[r] \in {"write", "read", "to"}
       THEN /\ Finally(r, "Cancelled")
            /\ UNCHANGED <<poolHolder, reqHolder, reqQueue, semQueue>>
       ELSE /\ pc' = [pc EXCEPT ![r] = "done"]
            /\ exc' = [exc EXCEPT ![r] = "Cancelled"]
            /\ tstage' = [tstage EXCEPT ![r] = "none"]
            /\ poolQueue' = Without(poolQueue, r)
            /\ semQueue' = Without(semQueue, r)
            /\ reqQueue' = [c \in Children |-> Without(reqQueue[c], r)]
            /\ reqHolder' = [c \in Children |->
                                IF reqHolder[c] = r THEN 0 ELSE reqHolder[c]]
            /\ poolHolder' = IF poolHolder = r THEN 0 ELSE poolHolder
            /\ semValue' = IF pc[r] = "fin" THEN semValue + 1 ELSE semValue
            /\ UNCHANGED sigterm
    /\ UNCHANGED <<rtag, rip, info, answer, exit_code, prior, childVars, poolVars,
                   reapVars, now>>
    /\ UNCHANGED auxVars

\* ------------------------------------------------------ child programs
\* the child consumes one request line, counts it and writes one line: the
\* JSON response carrying the count, or text that is no JSON
ChildReply(c) ==
    /\ proc[c] = "running"
    /\ inq[c] > 0
    /\ inq' = [inq EXCEPT ![c] = inq[c] - 1]
    /\ calls' = [calls EXCEPT ![c] = calls[c] + 1]
    /\ \E line \in {calls[c] + 1, NonJsonLine} :
          outq' = [outq EXCEPT ![c] = Append(outq[c], line)]
    /\ UNCHANGED <<pc, reqVars, exc, proc, sigterm, poolVars, lockVars,
                   poolQueue, semValue, tstage, reapVars, now>>
    /\ UNCHANGED auxVars

\* the child exits: on its own, or after a signal
ChildExits(c) ==
    /\ proc[c] = "running"
    /\ proc' = [proc EXCEPT ![c] = "exited"]
    /\ UNCHANGED <<pc, reqVars, exc, inq, outq, calls, sigterm, poolVars,
                   lockVars, poolQueue, semValue, tstage, reapVars, now>>
    /\ UNCHANGED auxVars

Tick ==
    /\ now < MaxTime
    /\ now' = now + 1
    /\ UNCHANGED <<pc, reqVars, exc, childVars, sigterm, poolVars, lockVars,
                   poolQueue, semValue, tstage, reapVars>>
    /\ UNCHANGED auxVars

\* ---------------------------------------------------------- idle reaper
\* _cleanup_idle_processes, lines 586-596, run from where the pass stands until
\* it has to wait for a child to exit: entries that are not idle are skipped, an
\* idle entry whose process has exited is deleted at once, an idle entry whose
\* process runs is sent SIGTERM and waited for.
RECURSIVE Scan(_, _)
Scan(keys, p) ==
    IF keys = <<>> THEN [pool |-> p, keys |-> <<>>]
    ELSE LET k == Head(keys)
             c == p[k]
         IN  IF c # 0 /\ IsIdleTimeout(c)
             THEN IF StillRunning(c) THEN [pool |-> p, keys |-> keys]
                  ELSE Scan(Tail(keys), [p EXCEPT ![k] = 0])
             ELSE Scan(Tail(keys), p)

ReaperGoOn(s) ==
    /\ pool' = s.pool
    /\ reapKeys' = s.keys
    /\ IF s.keys = <<>>
       THEN /\ poolHolder' = 0
            /\ rpc' = "sleep"
            /\ tstage' = [tstage EXCEPT ![ReaperId] = "none"]
            /\ UNCHANGED sigterm
       ELSE /\ poolHolder' = ReaperId
            /\ rpc' = "term"
            /\ tstage' = [tstage EXCEPT ![ReaperId] = "term"]
            /\ sigterm' = sigterm \cup {s.pool[Head(s.keys)]}

\* start_cleanup_task, lines 573-576, and _cleanup_idle_processes, lines 586-588:
\* the sleep ends and the pass asks for stateful_lock; when the lock is free and
\* nobody waits for it, acquire() returns at once and list(...keys()) is the
\* snapshot
ReaperWake ==
    /\ rpc = "sleep"
    /\ IF PoolLockFree /\ poolQueue = <<>>
       THEN /\ ReaperGoOn(Scan(SelectSeq(KeyOrder, LAMBDA k : pool[k] # 0), pool))
            /\ UNCHANGED poolQueue
       ELSE /\ rpc' = "wait"
            /\ poolQueue' = Append(poolQueue, ReaperId)
            /\ UNCHANGED <<pool, reapKeys, poolHolder, tstage, sigterm>>
    /\ UNCHANGED <<pc, reqVars, exc, childVars, last_access, request_count, probe,
                   reqHolder, reqQueue, semValue, semQueue, now>>
    /\ UNCHANGED auxVars

\* the pass waited for stateful_lock and takes it
ReaperTake ==
    /\ rpc = "wait"
    /\ PoolLockFree
    /\ Head(poolQueue) = ReaperId
    /\ poolQueue' = Tail(poolQueue)
    /\ ReaperGoOn(Scan(SelectSeq(KeyOrder, LAMBDA k : pool[k] # 0), pool))
    /\ UNCHANGED <<pc, reqVars, exc, childVars, last_access, request_count, probe,
                   reqHolder, reqQueue, semValue, semQueue, now>>
    /\ UNCHANGED auxVars

\* lines 285-287 inside the pass: the terminate returned, the entry is deleted,
\* the pass goes on
ReaperRemoveDone ==
    /\ rpc = "term"
    /\ TermReturns(ReaperId, pool[Head(reapKeys)])
    /\ ReaperGoOn(Scan(Tail(reapKeys), [pool EXCEPT ![Head(reapKeys)] = 0]))
    /\ UNCHANGED <<pc, reqVars, exc, childVars, last_access, request_count, probe,
                   poolQueue, reqHolder, reqQueue, semValue, semQueue, now>>
    /\ UNCHANGED auxVars

\* ------------------------------------------------------------- shutdown
\* variant: only the first key is visited
ShutdownKeys_FirstOnly(p) ==
    LET keys == SelectSeq(KeyOrder, LAMBDA k : p[k] # 0)
    IN  IF keys = <<>> THEN <<>> ELSE <<Head(keys)>>

\* the keys shutdown iterates over, lines 612-613: list(...keys())
ShutdownKeys(p) == SelectSeq(KeyOrder, LAMBDA k : p[k] # 0)

\* the loop of shutdown, lines 612-619, from where it stands until it has to
\* wait for a child to exit: the entry of a process that has exited is
\* deleted at once, a running process is sent SIGTERM and waited for
RECURSIVE ShutdownScan(_, _)
ShutdownScan(keys, p) ==
    IF keys = <<>> THEN [pool |-> p, keys |-> <<>>]
    ELSE IF StillRunning(p[Head(keys)]) THEN [pool |-> p, keys |-> keys]
    ELSE ShutdownScan(Tail(keys), [p EXCEPT ![Head(keys)] = 0])

\* s is the result of ShutdownScan; ts and st are tstage and sigterm as the
\* step found them
ShutdownGoOn(s, ts, st) ==
    /\ pool' = s.pool
    /\ sdKeys' = s.keys
    /\ IF s.keys = <<>>
       THEN /\ poolHolder' = 0
            /\ spc' = "down"
            /\ tstage' = [ts EXCEPT ![ShutdownId] = "none"]
            /\ sigterm' = st
       ELSE /\ poolHolder' = ShutdownId
            /\ spc' = "term"
            /\ tstage' = [ts EXCEPT ![ShutdownId] = "term"]
            /\ sigterm' = st \cup {s.pool[Head(s.keys)]}

\* The server stops and the lifespan runs its part after "yield", main.py
\* lines 78-109.  Request tasks still running are cancelled (as Cancel does
\* for one task: CancelledError at the await the task is suspended in, an
\* ephemeral execution inside its try block goes through its finally, every
\* "async with" releases what it holds); the cleanup task is cancelled and
\* awaited, lines 92-101, which ends a pass at its await and releases
\* stateful_lock; then process_manager.shutdown(), lines 608-613, takes the
\* lock, which is free by now, and the snapshot of the keys.  The environment
\* stops the server after it has issued its NumRequests requests, at the end
\* of the time the clock covers, and then cancels the tasks of a run in which
\* it cancelled none before.
InFlight(r) == pc[r] \notin {"idle", "done"}

InTry(r) == Path(r) = "stateless" /\ pc[r] \in {"write", "read", "to"}

ShutdownTake ==
    /\ spc = "run"
    /\ \A r \in Reqs : pc[r] # "idle"
    /\ now = MaxTime
    /\ cancelled = {}
    /\ cancelled' = cancelled \cup {r \in Reqs : InFlight(r)}
    /\ exc' = [r \in Reqs |-> IF InFlight(r) THEN "Cancelled" ELSE exc[r]]
    /\ pc' = [r \in Reqs |-> IF ~InFlight(r) THEN pc[r]
                              ELSE IF InTry(r) /\ StillRunning(r) THEN "fin" ELSE "done"]
    /\ semValue' = semValue + Cardinality({r \in Reqs :
                        \/ InTry(r) /\ ~StillRunning(r)
                        \/ pc[r] = "fin"})
    /\ poolQueue' = <<>>
    /\ semQueue' = <<>>
    /\ reqQueue' = [c \in Children |-> <<>>]
    /\ reqHolder' = [c \in Children |-> 0]
    /\ rpc' = "off"
    /\ reapKeys' = <<>>
    /\ sdPooled' = {pool[k] : k \in {x \in ClientIps : pool[x] # 0}}
    /\ ShutdownGoOn(ShutdownScan(ShutdownKeys(pool), pool),
                    [t \in Tasks |->
                        IF t \in Reqs /\ InFlight(t)
                        THEN (IF InTry(t) /\ StillRunning(t) THEN "term" ELSE "none")
                        ELSE IF t = ReaperId THEN "none" ELSE tstage[t]],
                    sigterm \cup {r \in Reqs : InTry(r) /\ StillRunning(r)})
    /\ UNCHANGED <<rtag, rip, info, answer, exit_code, prior, childVars,
                   last_access, request_count, probe, now>>
    /\ UNCHANGED <<httpVars, gcVars, rwVars, cfgVars, sdKilled>>

\* lines 285-287 inside shutdown: the terminate returned, the entry is
\* deleted, the loop goes on
ShutdownRemoveDone ==
    /\ spc = "term"
    /\ TermReturns(ShutdownId, pool[Head(sdKeys)])
    /\ sdKilled' = IF tstage[ShutdownId] = "kill"
                   THEN sdKilled \cup {pool[Head(sdKeys)]} ELSE sdKilled
    /\ ShutdownGoOn(ShutdownScan(Tail(sdKeys), [pool EXCEPT ![Head(sdKeys)] = 0]),
                    tstage, sigterm)
    /\ UNCHANGED <<pc, reqVars, exc, childVars, last_access, request_count, probe,
                   poolQueue, reqHolder, reqQueue, semValue, semQueue, reapVars, now>>
    /\ UNCHANGED <<httpVars, gcVars, rwVars, cfgVars, sdPooled>>

\* main.py lines 105-109: wait_for(process_manager.shutdown(), timeout=30.0)
\* gives up; that takes two children that each used up the 10 s after
\* SIGTERM and the 5 s after SIGKILL.  shutdown is cancelled at its await and
\* leaves stateful_lock; the entries not yet removed stay
ShutdownTimeout ==
    /\ spc = "term"
    /\ tstage[ShutdownId] = "kill"
    /\ sdKilled # {}
    /\ spc' = "timeout"
    /\ poolHolder' = 0
    /\ tstage' = [tstage EXCEPT ![ShutdownId] = "none"]
    /\ UNCHANGED <<pc, reqVars, exc, childVars, sigterm, poolVars, poolQueue,
                   reqHolder, reqQueue, semValue, semQueue, reapVars, now>>
    /\ UNCHANGED <<httpVars, gcVars, rwVars, cfgVars, sdKeys, sdPooled, sdKilled>>

Next ==
    \/ \E r \in Reqs : \E in \in Inputs : Arrive(r, in[1], in[2])
    \/ \E r \in Reqs : AcquireSem(r)
    \/ \E r \in Reqs : TakePoolGet(r)
    \/ \E r \in Reqs : AcquireReq(r)
    \/ \E r \in Reqs : WriteDone(r)
    \/ \E r \in Reqs : ReadLine(r)
    \/ \E r \in Reqs : Timeout(r)
    \/ \E r \in Reqs : TimeoutTermDone(r)
    \/ \E t \in Tasks : TermTimeout(t)
    \/ \E r \in Reqs : FinallyDone(r)
    \/ \E r \in Reqs : TakePoolPost(r)
    \/ \E r \in Reqs : EvictDone(r)
    \/ \E r \in Reqs : Cancel(r)
    \/ \E c \in Children : ChildReply(c)
    \/ \E c \in Children : ChildExits(c)
    \/ Tick
    \/ ReaperWake
    \/ ReaperTake
    \/ ReaperRemoveDone
    \/ ShutdownTake
    \/ ShutdownRemoveDone
    \/ ShutdownTimeout

Spec == Init /\ [][Next]_vars

\* ------------------------------------------------ persistent path, fair
\* The persistent path with the scheduling asyncio gives: the switch is on,
\* every request has a session key, no client disconnects.  The event loop
\* runs every task that is ready (a lock that is free is handed to its first
\* waiter, a wait_for whose time is up returns), so each step of a task is
\* weakly fair; the children, the clock, the arrival of requests, the wake-up
\* of the reaper and the stop of the server are not.
LockInit == Init /\ stateful_enabled
PooledInputs == { in \in Inputs : IsStateful(in[1]) /\ in[2] # "" }
LockNext ==
    \/ \E r \in Reqs : \E in \in PooledInputs : Arrive(r, in[1], in[2])
    \/ \E r \in Reqs : TakePoolGet(r)
    \/ \E r \in Reqs : AcquireReq(r)
    \/ \E r \in Reqs : WriteDone(r)
    \/ \E r \in Reqs : ReadLine(r)
    \/ \E r \in Reqs : Timeout(r)
    \/ \E r \in Reqs : TimeoutTermDone(r)
    \/ \E t \in Tasks : TermTimeout(t)
    \/ \E r \in Reqs : TakePoolPost(r)
    \/ \E r \in Reqs : EvictDone(r)
    \/ \E c \in Children : ChildReply(c)
    \/ \E c \in Children : ChildExits(c)
    \/ Tick
    \/ ReaperWake
    \/ ReaperTake
    \/ ReaperRemoveDone
    \/ ShutdownTake
    \/ ShutdownRemoveDone
    \/ ShutdownTimeout
LockFairness ==
    /\ \A r \in Reqs :
           /\ WF_vars(TakePoolGet(r)) /\ WF_vars(AcquireReq(r)) /\ WF_vars(WriteDone(r))
           /\ WF_vars(Timeout(r)) /\ WF_vars(TimeoutTermDone(r))
           /\ WF_vars(TakePoolPost(r)) /\ WF_vars(EvictDone(r))
    /\ \A t \in Tasks : WF_vars(TermTimeout(t))
    /\ WF_vars(ReaperTake) /\ WF_vars(ReaperRemoveDone)
    /\ WF_vars(ShutdownRemoveDone) /\ WF_vars(ShutdownTimeout)
LockSpec == LockInit /\ [][LockNext]_vars /\ LockFairness

\* ------------------------------------------------------ garbage collector
\* GarbageCollector.cleanup_old_jobs and _safe_delete (core/garbage_collector.py)

\* Path.resolve(): a symlink resolves to what it points to
Resolve(e) == IF entries[e].kind = "link" THEN entries[e].to ELSE e

\* the directory at x exists
DirExists(x) == IF x \in Names THEN present[x] /\ entries[x].kind = "dir" ELSE outside[x]

\* job_dir.is_dir(), line 44: follows a symlink
IsDir(e) == present[e] /\ DirExists(Resolve(e))

\* job_manager.load_metadata(job_dir.name) opens <jobs_dir>/<name>/metadata.json,
\* through a symlink too; the directories outside hold no metadata.json
MetaOf(e) == IF Resolve(e) \in Names THEN entries[Resolve(e)].meta ELSE "none"

\* seconds since the directory job_dir.stat() reaches was created and modified;
\* the directories outside are 2 * FileExpiry old
AgeOf(e) == IF Resolve(e) \in Names THEN entries[Resolve(e)].age ELSE 2 * FileExpiry

\* lines 51-59: created_at of the metadata when it was loaded (a datetime with
\* tzinfo when the text carries an offset), else
\* datetime.fromtimestamp(st_mtime), the local wall-clock time without tzinfo
CreatedAt(e) ==
    IF MetaOf(e) # "none"
    THEN [t |-> GcClock - AgeOf(e), aware |-> MetaOf(e) = "aware"]
    ELSE [t |-> GcClock - AgeOf(e) + tz, aware |-> FALSE]

\* line 38: datetime.utcnow() - timedelta(seconds=file_expiry), without tzinfo
CutoffTime == [t |-> GcClock - FileExpiry, aware |-> FALSE]

\* "created_at < cutoff_time", line 63: comparing a datetime with tzinfo to
\* one without raises TypeError, which line 68 catches
Earlier(a, b) ==
    IF a.aware # b.aware THEN "TypeError" ELSE IF a.t < b.t THEN "yes" ELSE "no"

\* str(path_resolved).startswith(str(jobs_dir_resolved)), line 85
StartsWithJobsDir(x) == x \in Names \/ x = SiblingDir

\* variant: _safe_delete removes the resolved path and has no symlink test
SafeDeleteTarget_Resolved(e) == IF StartsWithJobsDir(Resolve(e)) THEN Resolve(e) ELSE 0

\* _safe_delete, lines 81-95: what shutil.rmtree is called on (0: nothing)
SafeDeleteTarget(e) ==
    IF ~StartsWithJobsDir(Resolve(e)) THEN 0
    ELSE IF entries[e].kind = "link" THEN 0
    ELSE e

\* lines 34-41: the pass begins, iterdir() will yield every entry
GcStart ==
    /\ gpc = "idle"
    /\ gpc' = "scan"
    /\ todo' = Names
    /\ UNCHANGED <<entries, present, outside, tz, live, nonGcVars>>

\* lines 43-69, one round of the loop for the entry e
GcVisit(e) ==
    /\ gpc = "scan"
    /\ e \in todo
    /\ todo' = todo \ {e}
    /\ LET x == IF IsDir(e) /\ Earlier(CreatedAt(e), CutoffTime) = "yes"
                THEN SafeDeleteTarget(e) ELSE 0
       IN  /\ present' = [n \in Names |-> present[n] /\ n # x]
           /\ outside' = [d \in {OutsideDir, SiblingDir} |-> outside[d] /\ d # x]
    /\ UNCHANGED <<gpc, entries, tz, live, nonGcVars>>

\* line 71: the loop has ended
GcEnd ==
    /\ gpc = "scan"
    /\ todo = {}
    /\ gpc' = "done"
    /\ UNCHANGED <<entries, present, outside, todo, tz, live, nonGcVars>>

GcNext ==
    \/ GcStart
    \/ \E e \in Names : GcVisit(e)
    \/ GcEnd

GcSpecInit == PmInit /\ HttpInit /\ GcInit /\ RwQuiet

GcSpec == GcSpecInit /\ [][GcNext]_vars

\* ------------------------------------------------------- response rewriter
\* _extract_file_info (api/common.py lines 22-121) on response data without a
\* content array

\* "m in s" for strings
Contains(s, m) ==
    \E i \in 1..(Len(s) - Len(m) + 1) : SubSeq(s, i, i + Len(m) - 1) = m

\* s.split(m)[-1]: what follows the last occurrence of m in s
AfterLast(s, m) ==
    LET i == CHOOSE j \in 1..(Len(s) - Len(m) + 1) :
                 /\ SubSeq(s, j, j + Len(m) - 1) = m
                 /\ \A k \in (j + 1)..(Len(s) - Len(m) + 1) : SubSeq(s, k, k + Len(m) - 1) # m
    IN  SubSeq(s, i + Len(m), Len(s))

\* os.path.isabs
IsAbs(s) == s # <<>> /\ Head(s) = "/"

\* Path(s).name: the last component, "" for "." and for the empty path
PathName(s) ==
    LET segs == SelectSeq(s, LAMBDA x : x # "/" /\ x # ".")
    IN  IF segs = <<>> THEN <<>> ELSE <<segs[Len(segs)]>>

\* f"/mcpo-jobs/{job_id}/"
Marker(id) == <<"/", "mcpo-jobs", "/", id, "/">>

\* variant: a relative path is used whole as the file name
ExtractFilename_WholeRelative(s, id) ==
    IF Contains(s, Marker(id)) THEN AfterLast(s, Marker(id))
    ELSE IF ~IsAbs(s) THEN s
    ELSE <<>>

\* extract_filename_from_path, lines 43-51 (<<>>: None or the empty string,
\* which line 64 treats alike)
ExtractFilename(s, id) ==
    IF Contains(s, Marker(id)) THEN AfterLast(s, Marker(id))
    ELSE IF ~IsAbs(s) THEN PathName(s)
    ELSE <<>>

\* f"{base_url}/files/{job_id}/{filename}", line 66
DownloadUrl(filename, id) == <<"http://nginx", "/", "files", "/", id, "/">> \o filename

WithKey(o, k, v) == [x \in DOMAIN o \cup {k} |-> IF x = k THEN v ELSE o[x]]

\* the loop of lines 58-78 over the configured fields of one object
RECURSIVE MarkFields(_, _, _)
MarkFields(o, fields, id) ==
    IF fields = <<>> THEN o
    ELSE LET f == Head(fields)
             hit == /\ f \in DOMAIN o
                    /\ o[f].t = "str"
                    /\ o[f].s # <<>>
                    /\ ExtractFilename(o[f].s, id) # <<>>
             o1 == IF hit
                   THEN WithKey(o, "_download_url", Str(DownloadUrl(ExtractFilename(o[f].s, id), id)))
                   ELSE o
         IN  MarkFields(o1, Tail(fields), id)

\* the entry of the files list for a file name, lines 69-73 and 96-100
FileInfo(filename, id) ==
    [type |-> "file", url |-> DownloadUrl(filename, id), name |-> filename]

\* what the loop of lines 58-78 appends to the files list for one object
RECURSIVE FieldFiles(_, _, _)
FieldFiles(o, fields, id) ==
    IF fields = <<>> THEN <<>>
    ELSE LET f == Head(fields)
             hit == /\ f \in DOMAIN o
                    /\ o[f].t = "str"
                    /\ o[f].s # <<>>
                    /\ ExtractFilename(o[f].s, id) # <<>>
         IN  (IF hit THEN <<FileInfo(ExtractFilename(o[f].s, id), id)>> ELSE <<>>)
             \o FieldFiles(o, Tail(fields), id)

\* the literal start of the pattern of line 88: rf'/tmp/mcpo-jobs/{job_id}/'
PatternPrefix(id) == <<"/", "tmp", "/", "mcpo-jobs", "/", id, "/">>

\* a segment that ends in \.\w+
HasExt(x) == x \in {"out.xlsx", "a.x", "b.x", "c.x", "out.x"}

\* [^\s\)]+\.\w+ from position i: the longest run without a blank or a
\* closing bracket that ends in a segment with an extension (0: no match)
MatchEnd(text, i) ==
    LET run == {j \in i..Len(text) : \A k \in i..j : text[k] \notin {" ", ")"}}
        ends == {j \in run : HasExt(text[j])}
    IN  IF ends = {} THEN 0 ELSE CHOOSE j \in ends : \A k \in ends : k <= j

\* re.findall(pattern, text), line 89: the file names of the matches from
\* position pos on, left to right and without overlap
RECURSIVE FindAll(_, _, _)
FindAll(text, pos, id) ==
    LET pre == PatternPrefix(id)
        from == pos + Len(pre)
    IN  IF pos > Len(text) THEN <<>>
        ELSE IF /\ from <= Len(text)
                /\ SubSeq(text, pos, from - 1) = pre
                /\ MatchEnd(text, from) # 0
        THEN <<SubSeq(text, from, MatchEnd(text, from))>>
             \o FindAll(text, MatchEnd(text, from) + 1, id)
        ELSE FindAll(text, pos + 1, id)

\* text.replace(old, new)
RECURSIVE Replace(_, _, _)
Replace(text, old, new) ==
    IF text = <<>> THEN <<>>
    ELSE IF Len(text) >= Len(old) /\ SubSeq(text, 1, Len(old)) = old
    THEN new \o Replace(SubSeq(text, Len(old) + 1, Len(text)), old, new)
    ELSE <<Head(text)>> \o Replace(Tail(text), old, new)

\* the loop of lines 91-104 over the matches of one text
RECURSIVE Substitute(_, _, _, _)
Substitute(text, matches, files, id) ==
    IF matches = <<>> THEN [text |-> text, files |-> files]
    ELSE LET filename == Head(matches)
             known == \E i \in DOMAIN files : files[i].name = filename
         IN  Substitute(Replace(text, PatternPrefix(id) \o filename, filename),
                        Tail(matches),
                        IF known THEN files ELSE Append(files, FileInfo(filename, id)),
                        id)

\* lines 82-83: a content item that is an object with type "text" (its text
\* is a string in every response considered)
IsTextItem(item) ==
    /\ item.t = "obj"
    /\ "type" \in DOMAIN item.o
    /\ item.o.type = Str(<<"text">>)
    /\ "text" \in DOMAIN item.o
    /\ item.o.text.t = "str"

\* the loop of lines 81-107 over the items of a content array, from item i on
RECURSIVE ContentItems(_, _, _, _)
ContentItems(l, i, files, id) ==
    IF i > Len(l) THEN [l |-> l, files |-> files]
    ELSE IF IsTextItem(l[i]) /\ Contains(l[i].o.text.s, Marker(id))
    THEN LET r == Substitute(l[i].o.text.s, FindAll(l[i].o.text.s, 1, id), files, id)
         IN  ContentItems([l EXCEPT ![i] = Obj([l[i].o EXCEPT !.text = Str(r.text)])],
                          i + 1, r.files, id)
    ELSE ContentItems(l, i + 1, files, id)

\* dict order of the members of an object (the order of the JSON text)
MemberOrder ==
    <<"result", "error", "content", "type", "text", "file_path", "output_path", "_download_url">>

\* process_data, lines 53-118, with the files list found so far; gives the
\* data and the files list
RECURSIVE Walk(_, _, _)
RECURSIVE WalkMembers(_, _, _, _)
RECURSIVE WalkItems(_, _, _, _)
Walk(v, files, id) ==
    IF v.t = "obj"
    THEN LET o1 == MarkFields(v.o, FilePathFields, id)
             f1 == files \o FieldFiles(v.o, FilePathFields, id)
             c == IF "content" \in DOMAIN o1 /\ o1.content.t = "list"
                  THEN ContentItems(o1.content.l, 1, f1, id)
                  ELSE [l |-> <<>>, files |-> f1]
             o2 == IF "content" \in DOMAIN o1 /\ o1.content.t = "list"
                   THEN [o1 EXCEPT !.content = List(c.l)]
                   ELSE o1
             w == WalkMembers(o2, MemberOrder, c.files, id)
         IN  [data |-> Obj(w.o), files |-> w.files]
    ELSE IF v.t = "list"
    THEN LET w == WalkItems(v.l, 1, files, id)
         IN  [data |-> List(w.l), files |-> w.files]
    ELSE [data |-> v, files |-> files]

\* lines 111-112: the members of an object, in order
WalkMembers(o, keys, files, id) ==
    IF keys = <<>> THEN [o |-> o, files |-> files]
    ELSE IF Head(keys) \notin DOMAIN o THEN WalkMembers(o, Tail(keys), files, id)
    ELSE LET w == Walk(o[Head(keys)], files, id)
         IN  WalkMembers([o EXCEPT ![Head(keys)] = w.data], Tail(keys), w.files, id)

\* line 116: the items of an array, in order
WalkItems(l, i, files, id) ==
    IF i > Len(l) THEN [l |-> l, files |-> files]
    ELSE LET w == Walk(l[i], files, id)
         IN  WalkItems([l EXCEPT ![i] = w.data], i + 1, w.files, id)

\* the data _extract_file_info returns
ProcessData(v, id) == Walk(v, <<>>, id).data

\* the files list _extract_file_info returns
FilesOf(v, id) == Walk(v, <<>>, id).files

\* "\n".join of one line per file, lines 240-243 and 250-253 ("download: ["
\* stands for the paper clip sign and the Japanese word the line begins with)
RECURSIVE LinkLines(_)
LinkLines(files) ==
    IF files = <<>> THEN <<>>
    ELSE <<"download: [">> \o Head(files).name \o <<"](">> \o Head(files).url \o <<")">>
         \o (IF Len(files) > 1 THEN <<"\n">> ELSE <<>>) \o LinkLines(Tail(files))

\* download_text of lines 240-243, for a content that exists already
AppendedText(files) == <<"\n\n">> \o LinkLines(files)

\* "content" in response_data["result"], line 234: "TypeError" for a result
\* that is no container
HasContent(r) ==
    IF r.t = "obj" THEN (IF "content" \in DOMAIN r.o THEN "yes" ELSE "no")
    ELSE IF r.t = "list"
    THEN (IF \E i \in DOMAIN r.l : r.l[i] = Str(<<"content">>) THEN "yes" ELSE "no")
    ELSE IF r.t = "str" THEN (IF Contains(r.s, <<"content">>) THEN "yes" ELSE "no")
    ELSE "TypeError"

\* lines 231-257: the download links are added to result.content; raised is
\* TRUE when the step raises TypeError (subscript of a str or a list by
\* "content", membership test on a number or null)
InjectLinks(data, files) ==
    IF files = <<>> \/ data.t # "obj" \/ "result" \notin DOMAIN data.o
    THEN [raised |-> FALSE, data |-> data]
    ELSE LET r == data.o.result
         IN  IF r.t # "obj" THEN [raised |-> TRUE, data |-> data]
             ELSE IF HasContent(r) = "yes"
             THEN IF r.o.content.t = "list"
                  THEN [raised |-> FALSE,
                        data |-> Obj([data.o EXCEPT !.result =
                                     Obj([r.o EXCEPT !.content =
                                         List(Append(r.o.content.l, TextItem(AppendedText(files))))])])]
                  ELSE [raised |-> FALSE, data |-> data]
             ELSE [raised |-> FALSE,
                   data |-> Obj([data.o EXCEPT !.result =
                                Obj(WithContent(r.o, List(<<TextItem(LinkLines(files))>>)))])]

\* lines 223-257 as one function of the response
Rewriter(v, id) == InjectLinks(ProcessData(v, id), FilesOf(v, id))

\* _extract_file_info is applied to the response
Rewrite ==
    /\ rwPc = "in"
    /\ rwOut' = ProcessData(rwIn, JobId)
    /\ rwFiles' = FilesOf(rwIn, JobId)
    /\ rwPc' = "out"
    /\ UNCHANGED <<rwIn, rwSent, rwTwice, rwJobsDir, nonRwVars>>

\* the download links are injected, lines 231-257; the response is returned
\* (line 260) or the step raises and the request ends with 500 (lines 270-276)
Inject ==
    /\ rwPc = "out"
    /\ rwSent' = InjectLinks(rwOut, rwFiles).data
    /\ rwPc' = IF InjectLinks(rwOut, rwFiles).raised THEN "failed" ELSE "sent"
    /\ UNCHANGED <<rwIn, rwOut, rwFiles, rwTwice, rwJobsDir, nonRwVars>>

\* the rewriter is applied to the response it produced
RewriteAgain ==
    /\ rwPc = "sent"
    /\ rwTwice' = Rewriter(rwSent, JobId).data
    /\ rwPc' = IF Rewriter(rwSent, JobId).raised THEN "failed" ELSE "twice"
    /\ UNCHANGED <<rwIn, rwOut, rwFiles, rwSent, rwJobsDir, nonRwVars>>

RwNext == Rewrite \/ Inject \/ RewriteAgain

RwSpecInit == PmInit /\ HttpInit /\ GcQuiet /\ RwInit

RwSpec == RwSpecInit /\ [][RwNext]_vars

\* ---------------------------------------------------------- HTTP boundary
\* The POST endpoints and process_mcp_request (api/common.py), the GET
\* endpoints of _generate_openapi_spec (api/mcpo.py), and the job store
\* (core/job_manager.py).  A request comes with an endpoint, a server type and
\* a body ("absent" for a GET).
Endpoints == {"mcp", "mcpo_tool", "mcpo_legacy", "openapi"}
HTags == {"calc", "nosuch"}
Bodies == {"json", "no_tool_name", "not_json"}
BodiesOf(ep) == IF ep = "openapi" THEN {"absent"} ELSE Bodies

\* mcp_config.get_server_config(server_type) finds an entry
KnownTag(tag) == tag \in {"calc", "echo"}

\* POST /mcp/{server_type} (main.py line 131 mounts its router): the endpoint
\* hands the request, body unread, to process_mcp_request
McpEndpointReadsBody == FALSE

\* the mcpo POST endpoints read the body themselves, mcpo.py lines 258 and
\* 279; the GET endpoints read none
ReadsBodyFirst(ep) ==
    IF ep = "mcp" THEN McpEndpointReadsBody ELSE ep # "openapi"

\* what the endpoint raises before process_mcp_request is called, mcpo.py lines
\* 258 and 279-290: "await request.json()" stands outside any try, and the
\* legacy endpoint wants _tool_name in the body
EndpointRaises(ep, body) ==
    IF ~ReadsBodyFirst(ep) THEN "none"
    ELSE IF body = "not_json" THEN "JSONDecodeError"
    ELSE IF ep = "mcpo_legacy" /\ body = "no_tool_name" THEN "MissingToolName"
    ELSE "none"

\* the body process_mcp_request reads at line 176: the request's own body, or
\* the MockRequest body _handle_mcpo_tool_call built (always JSON)
BodyAtParse(ep, body) == IF ReadsBodyFirst(ep) THEN "json" ELSE body

\* variant: create_job makes the directory and writes no metadata.json
JobAtCreate_NoMetadata == [dir |-> TRUE, status |-> "none", error |-> ""]

\* JobManager.create_job: mkdir, then metadata.json with the default status
JobAtCreate == [dir |-> TRUE, status |-> "processing", error |-> ""]

\* variant: update_status saves nothing
UpdateStatus_NotSaved(j, st, err) == j

\* JobManager.update_status: metadata.json is read, status set, error set when
\* one is given, and the file is written
UpdateStatus(j, st, err) ==
    IF j.status = "none" THEN j
    ELSE [j EXCEPT !.status = st, !.error = IF err # "" THEN err ELSE @]

\* the ways "await process_manager.execute_request(...)" of lines 193-198 ends:
\* it returns (response_data, exit_code, actual_job_dir), or the exchange times
\* out, or another exception leaves it
ExecuteOutcomes ==
    {[exc |-> "none", exit_code |-> c] : c \in ExitStatuses}
    \cup {[exc |-> e, exit_code |-> -1] : e \in {"Timeout", "BrokenPipe", "ValueError"}}

\* job_manager.save_response, line 204 (job_manager.py lines 155-173): the
\* write succeeds or raises
SaveOutcomes == {"none", "OSError"}

\* the text update_status is given: "Timeout" at line 264, str(e) at line 272,
\* the exit-code message at line 218
ErrorText(o) ==
    IF o.exc = "Timeout" THEN "Timeout"
    ELSE IF o.exc # "none" THEN o.exc
    ELSE IF o.exit_code # 0 THEN "Process exited with code" ELSE ""

\* the responses execute_request returns: without a file, with a file of the
\* job named in a configured field, with one named in a text of the content,
\* and with a result that is an array
HResponses ==
    { Obj([result |-> Obj(<<>>)]),
      Obj([result |-> Obj([file_path |-> Str(JobsTmp \o <<"J1", "/", "out.xlsx">>)])]),
      Obj([result |-> Obj(WithContent(<<>>,
              List(<<TextItem(<<"see", " ">> \o JobsTmp \o <<"J1", "/", "out.xlsx">>)>>)))]),
      Obj([result |-> List(<<Obj([file_path |-> Str(JobsTmp \o <<"J1", "/", "out.xlsx">>)])>>)]) }

\* a request arrives and its endpoint function starts
HArrive(h, ep, tag, body) ==
    /\ hpc[h] = "idle"
    /\ \A g \in HReqs : g < h => hpc[g] # "idle"
    /\ hreq' = [hreq EXCEPT ![h] = [ep |-> ep, tag |-> tag, body |-> body]]
    /\ hpc' = [hpc EXCEPT ![h] = "endpoint"]
    /\ UNCHANGED <<hout, hstatus, job, hdata, saved, nonHttpVars>>

\* the endpoint function, then process_mcp_request lines 143-172 or
\* _generate_openapi_spec lines 33-58: an exception of the endpoint ends the
\* request (400 for the HTTPException of line 287, 500 for an exception nobody
\* handles); an unknown server type is answered 404; _generate_openapi_spec
\* builds its tools/list request itself and goes on to create_job
HEndpoint(h) ==
    /\ hpc[h] = "endpoint"
    /\ LET e == EndpointRaises(hreq[h].ep, hreq[h].body)
       IN  IF e # "none"
           THEN /\ hstatus' = [hstatus EXCEPT ![h] = IF e = "MissingToolName" THEN 400 ELSE 500]
                /\ hout' = [hout EXCEPT ![h].exc = e]
                /\ hpc' = [hpc EXCEPT ![h] = "done"]
           ELSE IF ~KnownTag(hreq[h].tag)
           THEN /\ hstatus' = [hstatus EXCEPT ![h] = 404]
                /\ hpc' = [hpc EXCEPT ![h] = "done"]
                /\ UNCHANGED hout
           ELSE /\ hpc' = [hpc EXCEPT ![h] =
                            IF hreq[h].ep = "openapi" THEN "create" ELSE "parse"]
                /\ UNCHANGED <<hstatus, hout>>
    /\ UNCHANGED <<hreq, job, hdata, saved, nonHttpVars>>

\* lines 175-183: the body is parsed; a body that is not JSON is answered 400
HParse(h) ==
    /\ hpc[h] = "parse"
    /\ IF BodyAtParse(hreq[h].ep, hreq[h].body) = "not_json"
       THEN /\ hstatus' = [hstatus EXCEPT ![h] = 400]
            /\ hout' = [hout EXCEPT ![h].exc = "JSONDecodeError"]
            /\ hpc' = [hpc EXCEPT ![h] = "done"]
       ELSE /\ hpc' = [hpc EXCEPT ![h] = "create"]
            /\ UNCHANGED <<hstatus, hout>>
    /\ UNCHANGED <<hreq, job, hdata, saved, nonHttpVars>>

\* lines 186-190: create_job and save_request; mcpo.py line 61: create_job
HCreateJob(h) ==
    /\ hpc[h] = "create"
    /\ job' = [job EXCEPT ![h] = JobAtCreate]
    /\ hpc' = [hpc EXCEPT ![h] = "exec"]
    /\ UNCHANGED <<hreq, hout, hstatus, hdata, saved, nonHttpVars>>

\* lines 193-198, mcpo.py lines 65-70: execute_request is called and ends;
\* when it returns, response_data is the response of the child
HExecute(h) ==
    /\ hpc[h] = "exec"
    /\ \E o \in ExecuteOutcomes :
           /\ hout' = [hout EXCEPT ![h] = o]
           /\ IF o.exc = "none"
              THEN \E d \in HResponses : hdata' = [hdata EXCEPT ![h] = d]
              ELSE UNCHANGED hdata
    /\ hpc' = [hpc EXCEPT ![h] = IF hreq[h].ep = "openapi" THEN "spec" ELSE "record"]
    /\ UNCHANGED <<hreq, hstatus, job, saved, nonHttpVars>>

\* after a return: save_response, line 204, stores response_data as it is,
\* then update_status by the exit code, lines 212-219, and the handler goes on
\* to the rewriter; after an exception, of execute_request or of
\* save_response: update_status of lines 264 and 272
HRecord(h) ==
    /\ hpc[h] = "record"
    /\ \E io \in SaveOutcomes :
           LET o == IF hout[h].exc = "none" /\ io # "none"
                    THEN [exc |-> io, exit_code |-> -1] ELSE hout[h]
           IN  /\ hout' = [hout EXCEPT ![h] = o]
               /\ job' = [job EXCEPT ![h] =
                             UpdateStatus(@, JobStatusAfter(o.exc, o.exit_code), ErrorText(o))]
               /\ saved' = [saved EXCEPT ![h] = IF o.exc = "none" THEN hdata[h] ELSE @]
               /\ hpc' = [hpc EXCEPT ![h] = IF o.exc = "none" THEN "rewrite" ELSE "respond"]
    /\ UNCHANGED <<hreq, hstatus, hdata, nonHttpVars>>

\* lines 223-257: _extract_file_info and the injection of the download links
\* change response_data; a TypeError of the injection is caught at line 270
\* and update_status of line 272 writes failed
HRewrite(h) ==
    /\ hpc[h] = "rewrite"
    /\ LET rw == Rewriter(hdata[h], JobId)
       IN  IF rw.raised
           THEN /\ hout' = [hout EXCEPT ![h] = [exc |-> "TypeError", exit_code |-> -1]]
                /\ job' = [job EXCEPT ![h] = UpdateStatus(@, "failed", "TypeError")]
                /\ UNCHANGED hdata
           ELSE /\ hdata' = [hdata EXCEPT ![h] = rw.data]
                /\ UNCHANGED <<hout, job>>
    /\ hpc' = [hpc EXCEPT ![h] = "respond"]
    /\ UNCHANGED <<hreq, hstatus, saved, nonHttpVars>>

\* line 260, or the HTTPException of lines 265 and 273
HRespond(h) ==
    /\ hpc[h] = "respond"
    /\ hstatus' = [hstatus EXCEPT ![h] = HttpStatus(hout[h].exc)]
    /\ hpc' = [hpc EXCEPT ![h] = "done"]
    /\ UNCHANGED <<hreq, hout, job, hdata, saved, nonHttpVars>>

\* _generate_openapi_spec, mcpo.py lines 72-207: the specification is built
\* from the tools of the response and returned, or the exception of
\* execute_request is answered with the HTTPException of line 204; neither
\* way calls save_response or update_status
HOpenApi(h) ==
    /\ hpc[h] = "spec"
    /\ hstatus' = [hstatus EXCEPT ![h] = IF hout[h].exc = "none" THEN 200 ELSE 500]
    /\ hpc' = [hpc EXCEPT ![h] = "done"]
    /\ UNCHANGED <<hreq, hout, job, hdata, saved, nonHttpVars>>

HttpNext ==
    \/ \E h \in HReqs : \E ep \in Endpoints : \E tag \in HTags : \E body \in BodiesOf(ep) :
           HArrive(h, ep, tag, body)
    \/ \E h \in HReqs : HEndpoint(h)
    \/ \E h \in HReqs : HParse(h)
    \/ \E h \in HReqs : HCreateJob(h)
    \/ \E h \in HReqs : HExecute(h)
    \/ \E h \in HReqs : HRecord(h)
    \/ \E h \in HReqs : HRewrite(h)
    \/ \E h \in HReqs : HOpenApi(h)
    \/ \E h \in HReqs : HRespond(h)

HttpSpec == Init /\ [][HttpNext]_vars

\* ===================================================== properties
\* A request is inside _communicate_with_process: stdin write .. stdout read
InExchange(r) == pc[r] \in {"write", "read"}
\* The input of request r asks for the persistent path (written from the
\* request's inputs, not from the path the dispatcher chose)
WantsPersistent(r) ==
    /\ pc[r] # "idle"
    /\ StatefulEnabled /\ rtag[r] = "calc" /\ rip[r] # ""
SameSession(q, r) ==
    WantsPersistent(q) /\ WantsPersistent(r) /\ rtag[q] = rtag[r] /\ rip[q] = rip[r]
\* An ephemeral request between the start of its child and the return of the
\* terminate in its finally block; it holds a permit throughout
HoldsPermit(r) == ~WantsPersistent(r) /\ pc[r] \in {"write", "read", "to", "fin"}

\* C1: for every pooled child, at most one request at a time is inside the
\* JSON-RPC exchange (stdin write through stdout read) with that child.
C1_OneExchangePerChild ==
    \A c \in Children :
        Cardinality({r \in Reqs : info[r] = c /\ InExchange(r)}) <= 1

\* a request reads from a pooled child while another request that was handed
\* the same child waits for its request_lock
C1_Witness ==
    \E r1, r2 \in Reqs :
        /\ r1 # r2 /\ info[r1] # 0 /\ info[r1] = info[r2]
        /\ WantsPersistent(r1) /\ pc[r1] = "read"
        /\ WantsPersistent(r2) /\ pc[r2] = "wait_req"

\* C2 as written: two persistent requests of the same (server_type, key) are
\* never inside their exchanges at the same time, whichever child serves each.
C2_AnyChildOrdered ==
    \A r1, r2 \in Reqs :
        (r1 # r2 /\ SameSession(r1, r2)) => ~(InExchange(r1) /\ InExchange(r2))

\* C2: two persistent requests of the same (server_type, key) that are served
\* by the same pooled child are never inside their exchanges at the same time;
\* exchanges of one session overlap only on different children.
C2_SameChildOrdered ==
    \A r1, r2 \in Reqs :
        (r1 # r2 /\ SameSession(r1, r2) /\ InExchange(r1) /\ InExchange(r2))
            => info[r1] # info[r2]

\* the second request of a session is inside its exchange with the child whose
\* exchange with the first request of the session has ended
C2_Witness ==
    \E r1, r2 \in Reqs :
        /\ r1 # r2 /\ SameSession(r1, r2)
        /\ info[r1] # 0 /\ info[r1] = info[r2]
        /\ pc[r1] = "done" /\ answer[r1] > 0
        /\ InExchange(r2)

C4_PersistentNoPermit ==
    /\ \A r \in Reqs :
          WantsPersistent(r) =>
              /\ pc[r] \notin {"wait_sem", "fin"}
              /\ \A i \in 1..Len(semQueue) : semQueue[i] # r
    /\ semValue = MaxConcurrent - Cardinality({r \in Reqs : HoldsPermit(r)})

\* all permits are held and a persistent request has been handed its child,
\* has written its request and has the reply waiting
C4_Witness ==
    /\ semValue = 0
    /\ \E r \in Reqs :
          /\ WantsPersistent(r) /\ pc[r] = "read"
          /\ info[r] # 0 /\ outq[info[r]] # <<>>

\* C5 as written: once an ephemeral execution has released its permit, its
\* child is no longer running.
C5_ChildGoneAtRelease ==
    \A r \in Reqs :
        (Path(r) = "stateless" /\ pc[r] = "done") => proc[r] # "running"

\* C5: once an ephemeral execution has released its permit, _terminate_process
\* has been applied to its child: the child has exited or has been sent SIGTERM.
C5_TerminateBeforeRelease ==
    \A r \in Reqs :
        (Path(r) = "stateless" /\ pc[r] = "done" /\ proc[r] = "running")
            => r \in sigterm

\* an ephemeral execution has read its reply, its child was sent SIGTERM and
\* has exited, and the permit is back
C5_Witness ==
    \E r \in Reqs :
        /\ Path(r) = "stateless" /\ pc[r] = "done"
        /\ answer[r] > 0 /\ exc[r] = "none"
        /\ r \in sigterm /\ proc[r] = "exited"
        /\ semValue = MaxConcurrent

\* C6: no pool entry is a child whose latest probe was unhealthy, and the
\* lookup never hands out a child that it has just probed unhealthy.
C6_NoUnhealthyInPool ==
    /\ [](\A k \in ClientIps : pool[k] # 0 => probe[pool[k]] # "unhealthy")
    /\ [][\A r \in Reqs :
            (pc[r] = "wait_pool" /\ pc'[r] = "wait_req")
                => (probe'[info'[r]] # "unhealthy" /\ pool'[rip[r]] = info'[r])]_vars

\* a child was probed unhealthy and its key is now served by another child
C6_Witness ==
    \E c \in Children : \E r \in Reqs :
        /\ probe[c] = "unhealthy"
        /\ rip[r] = rip[c] /\ info[r] # c /\ info[r] # 0
        /\ pool[rip[c]] = info[r]

Undisturbed ==
    /\ now = 0
    /\ cancelled = {}
    /\ \A q \in Reqs : exc[q] \notin {"Timeout", "BrokenPipe", "ValueError", "Cancelled"}
    /\ \A q \in Reqs : answer[q] >= 0
    /\ \A c \in Children : proc[c] # "failed"
    /\ \A c \in Children : proc[c] = "exited" => c \in sigterm
    /\ \A c \in Children :
          (c \in sigterm /\ proc[c] = "running") => \E t \in Tasks : tstage[t] = "term"

\* C8 as written: persistent requests issued one after the other are all
\* served without error, and the n-th request of a session gets the answer n
\* of the session's child (1, 2, 3, ...; 1 for the first request of a session).
C8_SessionAffinity ==
    \A r \in Reqs :
        (/\ WantsPersistent(r) /\ pc[r] = "done"
         /\ Undisturbed
         /\ \A q \in Reqs : q < r => q \in prior[r])
        => /\ exc[r] = "none"
           /\ answer[r] = 1 + Cardinality({q \in Reqs : q < r /\ SameSession(q, r)})
           /\ \A q \in Reqs : (q < r /\ SameSession(q, r)) => info[r] = info[q]

\* C9: the last_access timestamp of a pooled child never decreases.
C9_LastAccessMonotone ==
    [][\A c \in Children : last_access'[c] >= last_access[c]]_vars

\* C10: stateful_lock is never held by a request that is inside its exchange;
\* it is held only during lookup/creation (one step), an eviction, the
\* reaper's removal or the removals of shutdown.
C10_PoolLockNotAcrossExchange ==
    /\ \A r \in Reqs : pc[r] \in {"wait_req", "write", "read", "to"} => poolHolder # r
    /\ poolHolder # 0 =>
          \/ poolHolder = ReaperId /\ rpc = "term"
          \/ poolHolder = ShutdownId /\ spc = "term"
          \/ poolHolder \in Reqs /\ pc[poolHolder] = "ev"

\* the first request is still reading from its child while a later request
\* of another session has obtained its own child and is inside its exchange
C10_Witness ==
    \E r1, r2 \in Reqs :
        /\ r1 < r2
        /\ WantsPersistent(r1) /\ WantsPersistent(r2) /\ rip[r1] # rip[r2]
        /\ pc[r1] = "read" /\ outq[info[r1]] = <<>> /\ proc[info[r1]] = "running"
        /\ InExchange(r2) /\ info[r2] # info[r1]

\* Request r has been given its turn on its child: it is inside the exchange
\* or in the post-processing that follows it under the same request_lock
HasTurn(r) == pc[r] \in {"write", "read", "to", "post_wait", "ev"}

\* C11: requests of one session served by the same pooled child have their
\* exchanges in arrival order: when a request has its turn on the child, every
\* request of the session that arrived before it and was handed the same child
\* has left its exchange and released the request lock.
C11_ArrivalOrder ==
    \A r1, r2 \in Reqs :
        (/\ r1 < r2 /\ SameSession(r1, r2)
         /\ info[r1] # 0 /\ info[r1] = info[r2]
         /\ HasTurn(r2))
        => pc[r1] = "done"

\* the later of two requests of a session writes to the child from which the
\* earlier one has read its response
C11_Witness ==
    \E r1, r2 \in Reqs :
        /\ r1 < r2 /\ SameSession(r1, r2)
        /\ info[r1] # 0 /\ info[r1] = info[r2]
        /\ pc[r1] = "done" /\ answer[r1] # 0 /\ r1 \notin cancelled
        /\ pc[r2] = "write"

\* a line of n characters
TextOf(n) == [i \in 1..n |-> "x"]

\* C16: for a call, a non-JSON line becomes the envelope -32700 whose data is
\* at most the first 500 characters of the line and whose id is the request's,
\* end of output becomes the envelope -32603 "No response from MCP server"
\* with the request's id; a request that got either envelope ends without an
\* exception, and a pooled child that wrote a non-JSON line stays in the pool.
C16_SynthesizedEnvelopes ==
    /\ \A n \in {0, 1, 500, 501} : \A id \in {1, 2} :
          LET e == ParseErrorEnvelope(TextOf(n), id)
          IN  /\ e.code = -32700 /\ e.id = id
              /\ Len(e.data) = (IF n < 500 THEN n ELSE 500)
              /\ \A i \in 1..Len(e.data) : e.data[i] = TextOf(n)[i]
    /\ \A id \in {1, 2} :
          LET e == NoResponseEnvelope(id)
          IN  e.code = -32603 /\ e.id = id /\ e.data = "No response from MCP server"
    /\ \A r \in Reqs :
          (/\ pc[r] = "done" /\ r \notin cancelled
           /\ answer[r] \in {ParseErrorCode, InternalErrorCode})
          => /\ exc[r] = "none"
             /\ (/\ WantsPersistent(r) /\ answer[r] = ParseErrorCode
                 /\ now = 0 /\ \A q \in Reqs \ {r} : pc[q] = "idle")
                => pool[rip[r]] = info[r]

\* C17: a child of the persistent path that has exited when the startup
\* observation ends is not inserted in the pool, and its request fails with
\* HTTP 500.
C17_StartupFailure ==
    /\ \A k \in ClientIps : pool[k] # 0 => proc[pool[k]] # "failed"
    /\ \A r \in Reqs :
          (/\ WantsPersistent(r) /\ pc[r] = "done" /\ r \notin cancelled
           /\ info[r] = r /\ proc[r] = "failed")
          => HttpStatus(exc[r]) = 500

\* C15: a request whose exchange returned a response (the child's, or a
\* synthesized envelope) is answered with HTTP 200, and its job is completed
\* iff the reported exit code is 0 (0 also for a child still running).
C15_ResponseStatus ==
    \A r \in Reqs :
        (pc[r] = "done" /\ r \notin cancelled /\ answer[r] # 0)
        => /\ HttpStatus(exc[r]) = 200
           /\ (JobStatusAfter(exc[r], exit_code[r]) = "completed") <=> (exit_code[r] = 0)

\* ------------------------------------------------- HTTP boundary properties
\* the handler of h called execute_request
Executed(h) == hout[h] # NoOutcome /\ hout[h].exc \notin {"JSONDecodeError", "MissingToolName"}

C13_StatusMapping ==
    \A h \in HReqs :
        (hpc[h] = "done" /\ hreq[h].ep # "openapi") =>
            /\ (~KnownTag(hreq[h].tag) /\ hreq[h].body = "json")
                   => (hstatus[h] = 404 /\ ~job[h].dir)
            /\ (KnownTag(hreq[h].tag) /\ hreq[h].body = "not_json")
                   => (hstatus[h] = 400 /\ ~job[h].dir)
            /\ (Executed(h) /\ hout[h].exc = "Timeout") => hstatus[h] = 504
            /\ (Executed(h) /\ hout[h].exc \notin {"none", "Timeout"}) => hstatus[h] = 500
            /\ (Executed(h) /\ hout[h].exc = "none") => hstatus[h] = 200

\* C14: an error after the job was created sets the job's status to failed and
\* records the error in metadata.json before the error response is emitted: a
\* request that has an error status and a job has the job failed with an error
\* text.
C14_FailureRecorded ==
    \A h \in HReqs :
        (job[h].dir /\ hstatus[h] >= 400)
        => (job[h].status = "failed" /\ job[h].error # "")

\* an error response was emitted for a request whose job had been created
C14_Witness ==
    \E h \in HReqs :
        /\ hpc[h] = "done" /\ hstatus[h] \in {500, 504} /\ hout[h].exc # "none"
        /\ job[h].dir /\ job[h].status = "failed" /\ job[h].error = ErrorText(hout[h])

\* ---------------------------------------------- garbage collector properties
\* the directory e is older than file_expiry
Expired(e) == entries[e].kind = "dir" /\ entries[e].age > FileExpiry

\* C18: one GC pass deletes exactly the immediate subdirectories of the jobs
\* root whose creation time (created_at of the metadata, else the directory's
\* mtime) is earlier than now - file_expiry, and leaves the younger ones.
C18_ExactlyExpired ==
    gpc = "done" => \A e \in Names : entries[e].kind = "dir" => (~present[e] <=> Expired(e))

\* what the symlink e points to still exists
TargetIntact(e) == IF entries[e].to \in Names THEN present[entries[e].to] ELSE outside[entries[e].to]

RECURSIVE ObjectPairs(_, _)
ObjectPairs(a, b) ==
    IF a.t = "obj"
    THEN {<<a.o, b.o>>} \cup UNION {ObjectPairs(a.o[k], b.o[k]) : k \in DOMAIN a.o}
    ELSE IF a.t = "list"
    THEN UNION {ObjectPairs(a.l[i], b.l[i]) : i \in DOMAIN a.l}
    ELSE {}

\* the file name a path value stands for: what follows the job's
\* /mcpo-jobs/<job_id>/ when the value has one, else the last component of a
\* relative path (<<>>: none)
NameIn(s) ==
    LET m == Marker(JobId)
        tails == {t \in {SubSeq(s, i, Len(s)) : i \in 1..(Len(s) + 1)} :
                     /\ Len(s) - Len(t) >= Len(m)
                     /\ SubSeq(s, Len(s) - Len(t) - Len(m) + 1, Len(s) - Len(t)) = m
                     /\ ~Contains(t, m)}
    IN  IF tails # {} THEN CHOOSE t \in tails : TRUE
        ELSE IF s # <<>> /\ Head(s) # "/" /\ s[Len(s)] \notin {"/", "."} THEN <<s[Len(s)]>>
        ELSE <<>>

\* the configured fields of the object o that hold a string with a file name
NamedFields(o) ==
    SelectSeq(FilePathFields, LAMBDA f : f \in DOMAIN o /\ o[f].t = "str" /\ NameIn(o[f].s) # <<>>)

UrlOf(name) == Str(<<"http://nginx", "/", "files", "/", JobId, "/">> \o name)

\* C20 as stated: in the rewritten response, for every object at any depth
\* and every configured field of it with a string value, the object carries
\* _download_url iff a file name is extractable from that value, the URL is
\* <base>/files/<job_id>/<filename> of it, and the value is left as it was.
C20_UrlIffExtractable ==
    rwPc = "out" =>
        \A p \in ObjectPairs(rwIn, rwOut) :
            \A i \in 1..Len(FilePathFields) :
                LET f == FilePathFields[i]
                IN  (f \in DOMAIN p[1] /\ p[1][f].t = "str") =>
                        /\ p[2][f] = p[1][f]
                        /\ ("_download_url" \in DOMAIN p[2]) <=> (NameIn(p[1][f].s) # <<>>)
                        /\ ("_download_url" \in DOMAIN p[2])
                               => p[2]["_download_url"] = UrlOf(NameIn(p[1][f].s))

\* C20, amended: every value is left as it was, except that an object, at any
\* depth, with at least one configured field whose string value yields a
\* non-empty file name gets _download_url set to <base>/files/<job_id>/<filename>
\* for the last such field in the order of file_path_fields; an object with no
\* such field is returned as it came, with or without a _download_url (the
\* text of a content item, which the text substitution may rewrite, aside).
C20_UrlOfLastNamedField ==
    rwPc = "out" =>
        \A p \in ObjectPairs(rwIn, rwOut) :
            LET named == NamedFields(p[1])
            IN  /\ \A k \in DOMAIN p[1] :
                       (k \notin {"_download_url", "text"} /\ p[1][k].t \in {"str", "num", "null"})
                           => p[2][k] = p[1][k]
                /\ IF named # <<>>
                   THEN /\ DOMAIN p[2] = DOMAIN p[1] \cup {"_download_url"}
                        /\ p[2]["_download_url"] = UrlOf(NameIn(p[1][named[Len(named)]].s))
                   ELSE /\ DOMAIN p[2] = DOMAIN p[1]
                        /\ "_download_url" \in DOMAIN p[1]
                               => p[2]["_download_url"] = p[1]["_download_url"]

\* a response was rewritten that has, below the top level and inside an
\* array, an object whose relative path lies in a subdirectory, and that
\* object got its URL
C20_Witness ==
    /\ rwPc = "out"
    /\ "result" \in DOMAIN rwIn.o
    /\ rwIn.o["result"].t = "list"
    /\ LET a == rwIn.o["result"].l[1].o
           b == rwOut.o["result"].l[1].o
       IN  /\ "file_path" \in DOMAIN a
           /\ a["file_path"] = Str(<<"sub", "/", "b.x">>)
           /\ "output_path" \notin DOMAIN a
           /\ "_download_url" \notin DOMAIN a
           /\ "_download_url" \in DOMAIN b
           /\ b["_download_url"] = UrlOf(<<"b.x">>)

\* ------------------------------------------------- rewriter: content texts
\* the content array of the result member of a response (<<>>: none)
ResultContent(v) ==
    IF /\ v.t = "obj"
       /\ "result" \in DOMAIN v.o
       /\ v.o.result.t = "obj"
       /\ "content" \in DOMAIN v.o.result.o
       /\ v.o.result.o.content.t = "list"
    THEN v.o.result.o.content.l
    ELSE <<>>

\* the file names with an extension that a text holds as
\* <jobs_dir>/<job_id>/<name>
EmbeddedNames(text, dir) ==
    {n \in {"out.xlsx", "a.x"} : Contains(text, dir \o <<JobId, "/", n>>)}

\* the text with each of these paths replaced by the bare file name
BareNames(text, dir) ==
    Replace(Replace(text, dir \o <<JobId, "/", "out.xlsx">>, <<"out.xlsx">>),
            dir \o <<JobId, "/", "a.x">>, <<"a.x">>)

\* the response of the example and what the claim says comes back
ExampleIn(dir) ==
    Obj([result |-> Obj([content |-> List(<<
        TextItem(<<"see", " ">> \o dir \o <<JobId, "/", "out.xlsx">>) >>)])])
ExampleOut ==
    Obj([result |-> Obj([content |-> List(<<
        TextItem(<<"see", " ", "out.xlsx">>),
        TextItem(LinkLines(<<FileInfo(<<"out.xlsx">>, JobId)>>)) >>)])])

\* C21: in the response sent, every text item of the content array of the
\* result has each path <jobs_dir>/<job_id>/<name>.<ext> of its text replaced
\* by the bare file name, and that file is in the files list exactly once;
\* the response whose only content item is "see <jobs_dir>/<job_id>/out.xlsx"
\* comes back as "see out.xlsx" followed by one download-link item.
C21_TextPathsReplaced ==
    rwPc = "sent" =>
        /\ \A i \in DOMAIN ResultContent(rwIn) :
               IsTextItem(ResultContent(rwIn)[i]) =>
                   LET text == ResultContent(rwIn)[i].o.text.s
                   IN  /\ ResultContent(rwSent)[i].o.text.s = BareNames(text, rwJobsDir)
                       /\ \A n \in EmbeddedNames(text, rwJobsDir) :
                              Cardinality({j \in DOMAIN rwFiles : rwFiles[j].name = <<n>>}) = 1
        /\ rwIn = ExampleIn(rwJobsDir) => rwSent = ExampleOut

\* --------------------------------------------- rewriter: link injection
\* C22: the injection never fails the request; when a file was discovered and
\* the response has a result member, result.content of the response sent is
\* an array that is the content _extract_file_info returned (none: the empty
\* array) followed by one text item listing every file of the files list;
\* otherwise the response is sent as _extract_file_info returned it.
C22_OneLinkItemAppended ==
    /\ rwPc # "failed"
    /\ rwPc = "sent" =>
           IF rwFiles # <<>> /\ "result" \in DOMAIN rwOut.o
           THEN /\ rwSent.o.result.t = "obj"
                /\ "content" \in DOMAIN rwSent.o.result.o
                /\ ResultContent(rwSent) # <<>>
                /\ SubSeq(ResultContent(rwSent), 1, Len(ResultContent(rwSent)) - 1)
                       = ResultContent(rwOut)
                /\ \E text \in {LinkLines(rwFiles), AppendedText(rwFiles)} :
                       ResultContent(rwSent)[Len(ResultContent(rwSent))] = TextItem(text)
           ELSE rwSent = rwOut

\* C23: the rewriter is idempotent: applied to the response it produced, it
\* gives that response again.
C23_Idempotent ==
    rwPc = "twice" => rwTwice = rwSent

\* ------------------------------------------------- effective job directory
\* what execute_request returns when it ends without an exception: lines 161
\* and 214, "return response_data, exit_code"
ReturnValue(r) == <<answer[r], exit_code[r]>>

\* the working directory of a child: the job_dir of the request that started
\* it (lines 156 and 262; child c is the child request c started)
Cwd(c) == c

\* C24: a request whose exchange gave a response gets from execute_request,
\* as third value, the working directory its child was started with: the
\* directory of the request that started a reused persistent child, its own
\* directory for an ephemeral request.
C24_EffectiveJobDir ==
    \A r \in Reqs :
        (pc[r] = "done" /\ r \notin cancelled /\ answer[r] # 0)
        => /\ exc[r] = "none"
           /\ Len(ReturnValue(r)) = 3
           /\ ReturnValue(r)[3] = Cwd(info[r])

\* ------------------------------------------------------------- dispatch
\* the session pool and its lock
poolState == <<pool, last_access, request_count, probe, poolHolder, poolQueue>>

\* persistent mode is enabled, the server of the request is stateful and the
\* request came with a session key
PersistentWanted(r) ==
    stateful_enabled /\ ServerMode(rtag[r]) = "stateful" /\ rip[r] # ""

\* C26: a request that arrives goes to the persistent path (it asks for the
\* pool lock) iff persistent mode is enabled, its server is stateful and its
\* session key is not empty, and otherwise to the ephemeral path (it asks for
\* a permit); no step of a request on the ephemeral path changes the pool,
\* the bookkeeping of a pooled child, a health probe or the pool lock (the
\* step that begins shutdown is a step of the lifespan, not of a request).
C26_Dispatch ==
    [][\A r \in Reqs :
          /\ (pc[r] = "idle" /\ pc'[r] # "idle")
                 => /\ pc'[r] = "wait_pool" <=> PersistentWanted(r)'
                    /\ pc'[r] = "wait_sem" <=> ~PersistentWanted(r)'
          /\ (pc'[r] # pc[r] /\ spc' = spc /\ ~PersistentWanted(r)')
                 => poolState' = poolState]_vars

\* with persistent mode switched off, a request for the stateful server that
\* came with a session key is served by a child of its own while the pool is
\* empty
C26_Witness ==
    /\ ~stateful_enabled
    /\ \E r \in Reqs :
          /\ rtag[r] = "calc" /\ rip[r] = "ip1"
          /\ pc[r] = "read" /\ info[r] = r
    /\ \A k \in ClientIps : pool[k] = 0

\* -------------------------------------------------------- get_or_create
\* C27: when _get_or_create_stateful_process returns to request r, the child
\* it hands out is the entry the pool had for the key iff there was one and it
\* was healthy; otherwise exactly one child is started, with the job
\* directory of r as cwd, request_count 0 and last_access now, and an
\* unhealthy entry it replaces is no longer running; the pool entry of the
\* key is the child handed out, except that no entry is left when the start
\* of the new child failed.
C27_GetOrCreate ==
    [][\A r \in Reqs :
          (pc[r] = "wait_pool" /\ pc'[r] = "wait_req") =>
              LET k == rip[r]
                  e == pool[k]
                  c == info'[r]
                  started == {x \in Children : proc[x] = "none" /\ proc'[x] # "none"}
              IN  /\ (c = e) <=> (e # 0 /\ proc[e] = "running")
                  /\ c = e => started = {}
                  /\ c # e => /\ started = {c}
                              /\ Cwd(c) = r
                              /\ request_count'[c] = 0
                              /\ last_access'[c] = now
                              /\ e # 0 => proc'[e] # "running"
                  /\ pool'[k] = IF proc'[c] = "failed" THEN 0 ELSE c]_vars

\* ---------------------------------------------------------- bookkeeping
\* the persistent requests whose exchange on child c returned a response and
\* that have left execute_request
SucceededOn(c) ==
    {r \in Reqs : /\ WantsPersistent(r) /\ info[r] = c
                  /\ pc[r] = "done" /\ r \notin cancelled /\ answer[r] # 0}

\* C29: request_count of a child is the number of successful exchanges
\* completed on it; the step that ends a persistent request after a
\* successful exchange sets last_access of its child to the current time and
\* adds one to request_count, and the step that ends it after a failed
\* exchange changes neither.
C29_Bookkeeping ==
    /\ [](\A c \in Children : request_count[c] = Cardinality(SucceededOn(c)))
    /\ [][\A r \in Reqs :
             (pc[r] = "post_wait" /\ pc'[r] # "post_wait" /\ r \notin cancelled') =>
                 IF answer[r] # 0
                 THEN /\ last_access'[info[r]] = now
                      /\ request_count'[info[r]] = request_count[info[r]] + 1
                 ELSE /\ last_access'[info[r]] = last_access[info[r]]
                      /\ request_count'[info[r]] = request_count[info[r]]]_vars

\* ----------------------------------------------------------- idle reaper
\* a step in which the pass of the reaper examines pool entries
ReaperScans ==
    /\ rpc' # "off"
    /\ \/ rpc = "term" /\ reapKeys' # reapKeys
       \/ rpc = "wait" /\ rpc' # "wait"
       \/ rpc = "sleep" /\ rpc' = "term"
       \/ rpc = "sleep" /\ rpc' = "sleep" /\ pool' # pool /\ pc' = pc

\* the keys the pass is done with in this step: those of its snapshot (taken
\* when the pass begins) that it no longer has before it
Examined ==
    LET old == IF rpc = "term" THEN reapKeys
               ELSE SelectSeq(KeyOrder, LAMBDA k : pool[k] # 0)
    IN  {old[i] : i \in DOMAIN old} \ {reapKeys'[i] : i \in DOMAIN reapKeys'}

\* C30: in every step of a reaper pass, an entry the pass is done with is
\* removed iff now - last_access of its child is greater than the idle
\* timeout, and its child has then exited or was sent SIGTERM; no other entry
\* changes, no entry is added, only children of idle entries are signalled,
\* and the pass changes no child's state or bookkeeping.
C30_ReaperPass ==
    [][ReaperScans =>
          /\ \A k \in ClientIps :
                 IF k \in Examined
                 THEN /\ pool'[k] = 0 <=> now - last_access[pool[k]] > IdleTimeout
                      /\ pool'[k] # 0 => pool'[k] = pool[k]
                      /\ pool'[k] = 0 => (proc[pool[k]] # "running" \/ pool[k] \in sigterm)
                 ELSE pool'[k] = pool[k]
          /\ \A c \in sigterm' \ sigterm :
                 \E k \in ClientIps : pool[k] = c /\ now - last_access[c] > IdleTimeout
          /\ UNCHANGED <<proc, last_access, request_count>>]_vars

\* the reaper removed the entry of ip1, whose child was idle and in the middle
\* of an exchange, and left the entry of ip2, created at the current time
C30_Witness ==
    /\ rpc = "sleep"
    /\ pc[1] = "read" /\ rip[1] = "ip1" /\ info[1] = 1
    /\ pool["ip1"] = 0 /\ 1 \in sigterm
    /\ pool["ip2"] = 2 /\ last_access[2] = now /\ proc[2] = "running"

\* ---------------------------------------------------------------- shutdown
\* C25 as written: when shutdown has returned within its 30 s, the pool is
\* empty, no child that was in the pool is running, and no child the bridge
\* started is running.
C25_NoChildRemains ==
    spc = "down" =>
        /\ \A k \in ClientIps : pool[k] = 0
        /\ \A c \in sdPooled : proc[c] # "running"
        /\ \A c \in Children : proc[c] # "running"

\* C25: when shutdown has returned within its 30 s, the pool is empty and
\* _terminate_process has been applied to every child that was in the pool:
\* the child has exited, or it was sent SIGTERM and SIGKILL and outlasted both
\* waits.
C25_PoolEmptiedAndSignalled ==
    spc = "down" =>
        /\ \A k \in ClientIps : pool[k] = 0
        /\ \A c \in sdPooled :
               proc[c] = "running" => (c \in sigterm /\ c \in sdKilled)

\* shutdown found two running children in the pool, sent SIGTERM to both,
\* both have exited within the first wait, and shutdown has returned
C25_Witness ==
    /\ spc = "down"
    /\ Cardinality(sdPooled) = 2
    /\ sdKilled = {}
    /\ \A c \in sdPooled : c \in sigterm /\ proc[c] = "exited"

\* --------------------------------------------------------- pool and lock
\* task t is inside an "async with self.stateful_lock" block that awaits a
\* terminate: the eviction of a request, a removal by the reaper or by shutdown
PoolSection(t) ==
    IF t \in Reqs THEN pc[t] = "ev"
    ELSE IF t = ReaperId THEN rpc = "term"
    ELSE spc = "term"

\* the step is one of task t
StepOf(t) ==
    IF t \in Reqs THEN pc'[t] # pc[t]
    ELSE IF t = ReaperId THEN <<rpc, reapKeys>>' # <<rpc, reapKeys>>
    ELSE <<spc, sdKeys>>' # <<spc, sdKeys>>

\* C28: stateful_lock is held exactly by the task that is inside a removal,
\* so at most one task is; a step changes the pool only if it finds the lock
\* free (and takes it) or is a step of the task that holds it; and while a
\* pass of the reaper is under way every key of its snapshot it has yet to
\* examine is in the pool and only its own steps change the pool.
C28_PoolUnderLock ==
    /\ [](\A t \in Tasks : PoolSection(t) <=> poolHolder = t)
    /\ [](rpc = "term" => \A i \in DOMAIN reapKeys : pool[reapKeys[i]] # 0)
    /\ [][pool' # pool => (poolHolder = 0 \/ StepOf(poolHolder))]_vars
    /\ [][(rpc = "term" /\ ~StepOf(ReaperId)) => pool' = pool]_vars

\* the reaper holds the lock in the middle of a pass, waiting for the child
\* of an idle entry to exit, while a request of the same session waits for
\* the lock
C28_Witness ==
    /\ rpc = "term" /\ poolHolder = ReaperId
    /\ reapKeys # <<>>
    /\ \E r \in Reqs :
          /\ pc[r] = "wait_pool" /\ rip[r] = Head(reapKeys)
          /\ pool[rip[r]] # 0 /\ proc[pool[rip[r]]] = "running"

\* ------------------------------------------------------------- terminate
\* the step in which the terminate that task t is in returns
TermReturnStep(t) ==
    IF t = ReaperId THEN ReaperRemoveDone
    ELSE IF t = ShutdownId THEN ShutdownRemoveDone
    ELSE FinallyDone(t) \/ TimeoutTermDone(t) \/ EvictDone(t)

\* C31: SIGTERM is sent only to a child that is running; a terminate goes on
\* to SIGKILL only from the wait that follows its SIGTERM and only while the
\* child is still running; once SIGKILL is sent the terminate can return
\* whether the child exits or not; and a step that ends the terminate of a
\* request that was not cancelled leaves the exception the request has in
\* flight as it was.
C31_Terminate ==
    /\ [](\A t \in Tasks : tstage[t] = "kill" => ENABLED TermReturnStep(t))
    /\ [][/\ \A c \in sigterm' \ sigterm : proc[c] = "running"
          /\ \A t \in Tasks :
                (tstage'[t] = "kill" /\ tstage[t] # "kill")
                    => /\ tstage[t] = "term"
                       /\ TermTarget(t) \in sigterm
                       /\ proc[TermTarget(t)] = "running"
          /\ \A r \in Reqs :
                (tstage[r] \in {"term", "kill"} /\ tstage'[r] = "none"
                 /\ r \notin cancelled')
                    => exc'[r] = exc[r]]_vars

\* an ephemeral execution has ended and released its permit after its
\* terminate sent SIGTERM and then SIGKILL, and the child is still running
C31_Witness ==
    \E r \in Reqs :
        /\ Path(r) = "stateless" /\ pc[r] = "done" /\ r \notin cancelled
        /\ r \in sigterm /\ proc[r] = "running"

\* --- the stored response, the job status
\* a POST request was answered 200
Answered(h) == hpc[h] = "done" /\ hstatus[h] = 200 /\ hreq[h].ep # "openapi"

C39_LeavesProcessing ==
    \A h \in HReqs :
        (hpc[h] = "done" /\ job[h].dir) => job[h].status \in {"completed", "failed"}

\* --- eviction and the reaper against exchanges in flight
\* request r ends its stay at the pool lock after a failed exchange: it
\* begins the eviction or finishes it
EvictStep(r) ==
    /\ pc[r] \in {"post_wait", "ev"} /\ pc'[r] \in {"ev", "done"} /\ pc'[r] # pc[r]
    /\ exc[r] # "none"
    /\ spc' = spc /\ cancelled' = cancelled

\* C33: the eviction by a request whose exchange failed terminates and removes
\* only the child the exchange ran on: the step sends SIGTERM to no other
\* child, and an entry it deletes is the entry of that child, never one that
\* another request has registered under the same key meanwhile.
C33_EvictsOwnChild ==
    [][\A r \in Reqs :
           EvictStep(r) =>
               /\ sigterm' \ sigterm \subseteq {info[r]}
               /\ (pool[rip[r]] # 0 /\ pool'[rip[r]] = 0) => pool[rip[r]] = info[r]]_vars

\* C34: the idle reaper never terminates a pooled child while an exchange is
\* in flight on it: a step of the reaper's pass sends SIGTERM only to
\* children whose request_lock is free.
C34_ReaperSparesBusy ==
    [][ReaperScans => \A c \in sigterm' \ sigterm : reqHolder[c] = 0]_vars

\* --- the two locks
\* task t waits for stateful_lock
WaitsPool(t) ==
    IF t = ReaperId THEN rpc = "wait"
    ELSE t \in Reqs /\ pc[t] \in {"wait_pool", "post_wait"}

\* C35: the two locks never deadlock: when every exchange and every
\* terminate completes or times out, every wait for stateful_lock or for a
\* request_lock ends (again and again no task waits), and it ends with the
\* lock acquired: a request that waited for stateful_lock holds it in its
\* step under the lock (before the exchange it goes on to the request_lock,
\* after it it updates or evicts the entry), a request that waited for a
\* request_lock holds it and writes, the reaper begins its pass; a wait ends
\* otherwise only when the server stops.
C35_NoDeadlock ==
    /\ []<>(\A t \in Tasks : ~WaitsPool(t) /\ (t \in Reqs => pc[t] # "wait_req"))
    /\ [][spc' = spc =>
              /\ \A r \in Reqs :
                     /\ (pc[r] = "wait_pool" /\ pc'[r] # "wait_pool")
                            => (pc'[r] = "wait_req" /\ poolHolder = 0 /\ Head(poolQueue) = r)
                     /\ (pc[r] = "wait_req" /\ pc'[r] # "wait_req")
                            => (pc'[r] = "write" /\ reqHolder'[info[r]] = r)
                     /\ (pc[r] = "post_wait" /\ pc'[r] # "post_wait")
                            => (pc'[r] \in {"ev", "done"} /\ poolHolder = 0
                                /\ Head(poolQueue) = r)
              /\ (rpc = "wait" /\ rpc' # "wait")
                     => (rpc' \in {"sleep", "term"} /\ poolHolder = 0
                         /\ Head(poolQueue) = ReaperId)]_vars

\* a request waits for the request_lock another request holds, which itself
\* waits for stateful_lock while the reaper holds it for a terminate
C35_Witness ==
    \E r, q \in Reqs :
        /\ pc[r] = "wait_req" /\ reqHolder[info[r]] = q
        /\ pc[q] = "post_wait" /\ poolHolder = ReaperId /\ rpc = "term"

\* --- orphans
\* child c was started for the persistent path (by request c, for its key)
Persistent(c) == Path(c) = "stateful" /\ proc[c] # "none"

\* C36: no persistent child is orphaned: a running child started for the
\* persistent path is the process of the pool entry of its key (so there is
\* at most one per key), and an entry is deleted from the pool only after
\* its process has exited.
C36_NoOrphan ==
    /\ [](\A c \in Children :
              (Persistent(c) /\ proc[c] = "running") => pool[rip[c]] = c)
    /\ [][\A k \in ClientIps :
              (pool[k] # 0 /\ pool'[k] # pool[k]) => proc[pool[k]] # "running"]_vars

\* C36, amended: a running child started for the persistent path is the
\* process of the pool entry of its key or has been sent SIGTERM; an entry is
\* deleted only after its process has exited or, the process still running,
\* by the task whose _terminate_process on it gave up after SIGKILL.
C36_NoOrphanButGivenUp ==
    /\ [](\A c \in Children :
              (Persistent(c) /\ proc[c] = "running") => (pool[rip[c]] = c \/ c \in sigterm))
    /\ [][\A k \in ClientIps :
              (pool[k] # 0 /\ pool'[k] # pool[k])
                  => \/ proc[pool[k]] # "running"
                     \/ \E t \in Tasks :
                            /\ tstage[t] = "kill" /\ tstage'[t] # "kill"
                            /\ TermTarget(t) = pool[k]]_vars

\* the entry of a child was deleted after its terminate gave up: the child
\* runs on outside the pool, next to the new child of its key
C36_Witness ==
    \E c, e \in Children :
        /\ Persistent(c) /\ proc[c] = "running" /\ c \in sigterm
        /\ pool[rip[c]] = e /\ e # c /\ proc[e] = "running"

\* --- GC and running children
\* C37: GC never deletes a job directory that is the working directory of a
\* live child, however long ago the directory was created: every such
\* directory is still there at every moment of a GC pass.
C37_LiveDirKept ==
    \A e \in live : present[e]

\* --- sessions
\* child c was started by a request that came with the server type and the
\* key of request r
StartedFor(r, c) == rtag[c] = rtag[r] /\ rip[c] = rip[r]

====
